---- MODULE Spec2Model ----
(***************************************************************************)
(* A model of the core of mijit: the keep-alive analysis and the builder   *)
(* of the optimizer (src/optimizer/builder), and the labels of the lowerer *)
(* with the patchable jumps of the x86_64 assembler (src/target).          *)
(*                                                                         *)
(* Seven state machines share the module.  SpecBuild runs                  *)
(* keep_alive_sets() and then Builder::walk(), with the allocator and the  *)
(* code generator, on a dataflow graph and a control-flow tree drawn from  *)
(* a bounded family.  SpecLabel runs the Lowerer's label operations on an  *)
(* Assembler buffer; SpecAsm, SpecInstr, SpecDisp and SpecFar run the      *)
(* Assembler's jumps, instructions and displacements; SpecExec runs        *)
(* Target::execute.                                                        *)
(***************************************************************************)
EXTENDS Integers, Sequences, FiniteSets, TLC

VARIABLES
    dataflow,   \* the Dataflow graph under analysis (constant during a run)
    cft,        \* the CFT under analysis (constant during a run)
    caller,     \* "test": keep_alive_sets() alone; "build": build()
    phase,      \* "ka", "builder", "done", "panic", or "idle"
    marks,      \* KeepAlive::marks, then Builder::marks
    kaStack,    \* the activation records of KeepAlive::walk, innermost last
    trees,      \* the HotPathTrees finished so far, by the CFT they convert
    log,        \* history: what the last step of a walk did
    bStack,     \* the activation records of Builder::walk, innermost last
    ebbs,       \* the EBBs that Builder::walk has returned, by CFT
    buffer,     \* Assembler::buffer: the bytes, the byte at address a is buffer[a + 1]
    pos,        \* Assembler::pos: the assembly address
    labels,     \* the Labels the caller of the Lowerer holds
    lphase,     \* "run", "panic", or "idle"
    lastOp,     \* history: the last operation on the Lowerer and its arguments
    targets,    \* history: the most recent target of each jump assembled, by address
    aphase,     \* "run", "panic" or "idle": the caller of the Assembler
    lastAsm,    \* history: the last call of an Assembler method
    prevAsm,    \* history: the call before it
    perm,       \* the mode of the Buffer: "writable" or "executable"
    owner,      \* who owns the lowerer: "caller", "execute" or "gone"
    outcome,    \* how far Target::execute has got, and then what it returned
    fcall,      \* a pure function and its arguments
    fresult     \* what it returned, if it has been called

buildVars == <<dataflow, cft, caller, phase, marks, kaStack, trees, log, bStack, ebbs>>

labelVars == <<buffer, pos, labels, lphase, lastOp>>

asmVars == <<targets, aphase, lastAsm, prevAsm, perm, owner, outcome, fcall, fresult>>

vars == <<buildVars, labelVars, asmVars>>

-----------------------------------------------------------------------------
(* Bounds of the model. *)

\* The number of values live on entry in the generated dataflow graphs.
NumInputs == 2
\* The number of arithmetic nodes in the generated dataflow graphs.
NumCompute == 2
\* The number of Labels the caller of the Lowerer may hold.
MaxLabels == 2
\* The number of bytes that may be assembled.
MaxPos == 12

-----------------------------------------------------------------------------
(* Sequences and folds used throughout. *)

Range(s) == {s[i] : i \in DOMAIN s}

-----------------------------------------------------------------------------
(* Dataflow: nodes are 0..n-1, node 0 is the entry node.  An Out is a pair *)
(* <<node, index>>: dataflow.out(out) yields that pair.                    *)

entry_node == 0

Nodes(df) == 0 .. (df.n - 1)

\* dataflow.outs(node)
OutsOf(df, node) == {<<node, i>> : i \in 0 .. (df.num_outs[node] - 1)}

\* dataflow.out(out).0
Definer(out) == out[1]

\* dataflow.node_map(): every node mapped to the default 0.
node_map(df) == [n \in Nodes(df) |-> 0]

-----------------------------------------------------------------------------
(* CFT: a table of tree nodes, by identifier.  A Merge carries the exit    *)
(* node; a Switch carries the guard, the cases, the default and the index  *)
(* of the hot case among cases ++ [default_].                              *)

Merge(exit) ==
    [kind |-> "Merge", exit |-> exit, guard |-> 0, cases |-> <<>>,
     default_ |-> 0, hot_index |-> 0]

Switch(guard, cases, default_, hot_index) ==
    [kind |-> "Switch", exit |-> 0, guard |-> guard, cases |-> cases,
     default_ |-> default_, hot_index |-> hot_index]

\* s with its i-th element (counted from 0) removed.
RemoveAt(s, i) == [j \in 1 .. (Len(s) - 1) |-> IF j <= i THEN s[j] ELSE s[j + 1]]

\* s with x inserted so that it becomes the i-th element (counted from 0).
InsertAt(s, i, x) ==
    [j \in 1 .. (Len(s) + 1) |->
        IF j <= i THEN s[j] ELSE IF j = i + 1 THEN x ELSE s[j - 1]]

\* Switch::remove_hot: the hot child, and the Cold that remains.
remove_hot(sw) ==
    LET all == Append(sw.cases, sw.default_)
    IN  [hot  |-> all[sw.hot_index + 1],
         cold |-> [guard |-> sw.guard, hot_index |-> sw.hot_index,
                   colds |-> RemoveAt(all, sw.hot_index)]]

\* Cold::insert_hot: the cases and the default of the full Switch.
insert_hot(cold, hot) ==
    LET all == InsertAt(cold.colds, cold.hot_index, hot)
    IN  [guard |-> cold.guard,
         cases |-> SubSeq(all, 1, Len(all) - 1),
         default_ |-> all[Len(all)]]

\* CFT::hot_path: the cold branches passed on the way to the hot leaf, in
\* order from the root, and the exit node of that leaf.
RECURSIVE hot_path_from(_, _, _)
hot_path_from(t, id, colds) ==
    IF t[id].kind = "Merge"
    THEN [colds |-> colds, exit |-> t[id].exit]
    ELSE LET r == remove_hot(t[id])
         IN  hot_path_from(t, r.hot, Append(colds, r.cold))

hot_path(t, id) == hot_path_from(t, id, <<>>)

-----------------------------------------------------------------------------
(* flood: depth-first from exit along data and effect edges.  An unmarked  *)
(* node gets the mark coldness and is appended in post-order; a node with  *)
(* a smaller mark is recorded in inputs (data edge) or effects (effect     *)
(* edge) and not entered.                                                  *)

RECURSIVE Visit(_, _, _, _)
RECURSIVE VisitIns(_, _, _, _, _)
RECURSIVE VisitDeps(_, _, _, _, _)

VisitIns(df, coldness, st, ins, i) ==
    IF i > Len(ins) THEN st
    ELSE LET out == ins[i]
             m   == st.marks[Definer(out)]
             st1 == IF m = 0 THEN Visit(df, coldness, st, Definer(out))
                    ELSE IF m < coldness
                         THEN [st EXCEPT !.inputs = @ \cup {out}]
                         ELSE st
         IN  VisitIns(df, coldness, st1, ins, i + 1)

VisitDeps(df, coldness, st, deps, i) ==
    IF i > Len(deps) THEN st
    ELSE LET dep == deps[i]
             m   == st.marks[dep]
             st1 == IF m = 0 THEN Visit(df, coldness, st, dep)
                    ELSE IF m < coldness
                         THEN [st EXCEPT !.effects = @ \cup {dep}]
                         ELSE st
         IN  VisitDeps(df, coldness, st1, deps, i + 1)

Visit_PreOrder(df, coldness, st, node) ==
    LET st1 == [st EXCEPT !.marks[node] = coldness, !.nodes = Append(@, node)]
        st2 == VisitIns(df, coldness, st1, df.ins[node], 1)
    IN  VisitDeps(df, coldness, st2, df.deps[node], 1)

Visit(df, coldness, st, node) ==
    LET st1 == [st EXCEPT !.marks[node] = coldness]
        st2 == VisitIns(df, coldness, st1, df.ins[node], 1)
        st3 == VisitDeps(df, coldness, st2, df.deps[node], 1)
    IN  [st3 EXCEPT !.nodes = Append(@, node)]

flood(df, mks, coldness, inputs, effects, exit) ==
    Visit(df, coldness,
          [marks |-> mks, inputs |-> inputs, effects |-> effects, nodes |-> <<>>],
          exit)

-----------------------------------------------------------------------------
(* The dataflow graphs and control-flow trees the walks are run on.        *)

MkDataflow(n, op, deps, ins, num_outs) ==
    [n |-> n, op |-> op, deps |-> deps, ins |-> ins, num_outs |-> num_outs]

\* tests::binary_tree: 7 values live on entry (a, b, c, p, q, r, s), three
\* guards and four exits; every exit depends on the guards passed to reach it.
BinaryTreeDataflow ==
    MkDataflow(8,
        [n \in 0 .. 7 |-> IF n \in 1 .. 3 THEN "Guard" ELSE "Convention"],
        [n \in 0 .. 7 |->
            CASE n \in {4, 5} -> <<1, 2>>
              [] n \in {6, 7} -> <<1, 3>>
              [] OTHER        -> <<>>],
        [n \in 0 .. 7 |-> IF n = 0 THEN <<>> ELSE <<(<<0, n - 1>>)>>],
        [n \in 0 .. 7 |-> IF n = 0 THEN 7 ELSE 0])

\* merge4..merge7 are 1..4, switch2 is 5, switch3 is 6, switch1 is 7.
BinaryTreeCFT ==
    [root |-> 7,
     t |-> [id \in 1 .. 7 |->
              CASE id \in 1 .. 4 -> Merge(id + 3)
                [] id = 5 -> Switch(2, <<1>>, 2, 0)
                [] id = 6 -> Switch(3, <<3>>, 4, 0)
                [] id = 7 -> Switch(1, <<5>>, 6, 0)]]

\* The Outs a generated node may read: the values live on entry and the
\* results of the arithmetic nodes 1..NumCompute.
Pool == {<<entry_node, i>> : i \in 0 .. (NumInputs - 1)}
        \cup {<<j, 0>> : j \in 1 .. NumCompute}

\* What the j-th arithmetic node reads: the first entry value, or the result
\* of the arithmetic node before it.
ComputeIns(j) == IF j = 1 THEN <<(<<entry_node, 0>>)>> ELSE <<(<<j - 1, 0>>)>>

\* The nested tree `if g1 { if g2 {hh} else {hc} } else { if g3 {ch} else {cc} }`
\* over a dataflow graph in which each guard is an effect predecessor of what
\* follows it.  The hot exit hh reads the result of the first arithmetic
\* node; reads[1..4] are the Outs read by g3, hc, ch and cc.
NestedDataflow(reads) ==
    LET k == NumCompute
    IN  MkDataflow(k + 8,
            [n \in 0 .. (k + 7) |->
                CASE n = 0 -> "Convention"
                  [] n \in 1 .. k -> "Binary"
                  [] n \in (k + 1) .. (k + 3) -> "Guard"
                  [] OTHER -> "Convention"],
            [n \in 0 .. (k + 7) |->
                CASE n \in {k + 2, k + 3} -> <<k + 1>>
                  [] n \in {k + 4, k + 5} -> <<k + 2>>
                  [] n \in {k + 6, k + 7} -> <<k + 3>>
                  [] OTHER -> <<>>],
            [n \in 0 .. (k + 7) |->
                CASE n = 0 -> <<>>
                  [] n \in 1 .. k -> ComputeIns(n)
                  [] n = k + 1 -> <<(<<entry_node, 0>>)>>
                  [] n = k + 2 -> <<(<<entry_node, NumInputs - 1>>)>>
                  [] n = k + 3 -> <<reads[1]>>
                  [] n = k + 4 -> <<(<<1, 0>>)>>
                  [] OTHER -> <<reads[n - (k + 3)]>>],
            [n \in 0 .. (k + 7) |->
                CASE n = 0 -> NumInputs
                  [] n \in 1 .. k -> 1
                  [] OTHER -> 0])

NestedCFT ==
    LET k == NumCompute
    IN  [root |-> 7,
         t |-> [id \in 1 .. 7 |->
                  CASE id \in 1 .. 4 -> Merge(k + 3 + id)
                    [] id = 5 -> Switch(k + 2, <<1>>, 2, 0)
                    [] id = 6 -> Switch(k + 3, <<3>>, 4, 0)
                    [] id = 7 -> Switch(k + 1, <<5>>, 6, 0)]]

\* One guard with three outcomes: `match g { 0 => x0, 1 => x1, _ => x2 }`, of
\* which outcome `hot` is the hot one.  reads[1..3] are the Outs read by the
\* three exits.
WideDataflow(reads) ==
    LET k == NumCompute
    IN  MkDataflow(k + 5,
            [n \in 0 .. (k + 4) |->
                CASE n = 0 -> "Convention"
                  [] n \in 1 .. k -> "Binary"
                  [] n = k + 1 -> "Guard"
                  [] OTHER -> "Convention"],
            [n \in 0 .. (k + 4) |-> IF n > k + 1 THEN <<k + 1>> ELSE <<>>],
            [n \in 0 .. (k + 4) |->
                CASE n = 0 -> <<>>
                  [] n \in 1 .. k -> ComputeIns(n)
                  [] n = k + 1 -> <<(<<entry_node, 0>>)>>
                  [] OTHER -> <<reads[n - (k + 1)]>>],
            [n \in 0 .. (k + 4) |->
                CASE n = 0 -> NumInputs
                  [] n \in 1 .. k -> 1
                  [] OTHER -> 0])

WideCFT(hot) ==
    LET k == NumCompute
    IN  [root |-> 4,
         t |-> [id \in 1 .. 4 |->
                  IF id \in 1 .. 3 THEN Merge(k + 1 + id)
                  ELSE Switch(k + 1, <<1, 2>>, 3, hot)]]

\* A hot path under register pressure: three arithmetic nodes, the guard
\* reads the second, the hot exit the third, and the other exit reads two
\* values live on entry and the first arithmetic node, which are thereby
\* kept alive up to the guard.  Outcome `hot` of the guard is the hot one;
\* with guard_ins = 2 the guard reads the first arithmetic node as well.
PressureDataflow(hot, guard_ins) ==
    MkDataflow(7,
        [n \in 0 .. 6 |->
            CASE n \in 1 .. 3 -> "Binary"
              [] n = 4 -> "Guard"
              [] OTHER -> "Convention"],
        [n \in 0 .. 6 |-> IF n > 4 THEN <<4>> ELSE <<>>],
        [n \in 0 .. 6 |->
            CASE n = 0 -> <<>>
              [] n = 1 -> <<(<<entry_node, 0>>)>>
              [] n = 2 -> <<(<<entry_node, NumInputs - 1>>)>>
              [] n = 3 -> <<(<<1, 0>>)>>
              [] n = 4 -> IF guard_ins = 1 THEN <<(<<2, 0>>)>>
                          ELSE <<(<<2, 0>>), (<<1, 0>>)>>
              [] n = 5 + hot -> <<(<<3, 0>>)>>
              [] OTHER -> <<(<<entry_node, 0>>), (<<entry_node, NumInputs - 1>>),
                            (<<1, 0>>)>>],
        [n \in 0 .. 6 |->
            CASE n = 0 -> NumInputs
              [] n \in 1 .. 3 -> 1
              [] OTHER -> 0])

PressureCFT(hot) ==
    [root |-> 3,
     t |-> [id \in 1 .. 3 |->
              IF id \in 1 .. 2 THEN Merge(4 + id) ELSE Switch(4, <<1>>, 2, hot)]]

Instances ==
    {[dataflow |-> BinaryTreeDataflow, cft |-> BinaryTreeCFT, caller |-> "test"]}
    \cup {[dataflow |-> NestedDataflow(reads), cft |-> NestedCFT, caller |-> "build"] :
            reads \in [1 .. 4 -> Pool]}
    \cup {[dataflow |-> WideDataflow(reads), cft |-> WideCFT(hot), caller |-> "build"] :
            reads \in [1 .. 3 -> Pool], hot \in 0 .. 2}
    \cup {[dataflow |-> PressureDataflow(hot, guard_ins), cft |-> PressureCFT(hot),
            caller |-> "build"] : hot \in 0 .. 1, guard_ins \in 1 .. 2}

-----------------------------------------------------------------------------
(* Keep-alive analysis (keep_alive.rs).                                    *)

HotPathTree_new_ByHotIndex(exit, children) ==
    [exit |-> exit,
     children |->
        [g \in {children[i].cold.hot_index : i \in DOMAIN children} |->
            children[CHOOSE i \in DOMAIN children : children[i].cold.hot_index = g]]]

\* HotPathTree::new: the children are collected into a map keyed by the
\* guard of each GuardFailure; a later entry replaces an earlier one with
\* the same key.
HotPathTree_new(exit, children) ==
    [exit |-> exit,
     children |->
        [g \in {children[i].cold.guard : i \in DOMAIN children} |->
            LET last == CHOOSE i \in DOMAIN children :
                            /\ children[i].cold.guard = g
                            /\ \A j \in DOMAIN children :
                                   children[j].cold.guard = g => j <= i
            IN  children[last]]]

KeepAlive_new_Unmarked(df) == node_map(df)

\* KeepAlive::new
KeepAlive_new(df) == [node_map(df) EXCEPT ![entry_node] = 1]

\* An activation record of KeepAlive::walk(cft, inputs, coldness) that has
\* just been entered.  entry_marks is history: the marks on entry.
KAFrame(id, inputs, coldness, mks) ==
    [cft |-> id, coldness |-> coldness, inputs |-> inputs, pc |-> "entry",
     colds |-> <<>>, exit |-> 0, nodes |-> <<>>, gi |-> 1, ci |-> 1,
     keep_alives |-> {}, children |-> <<>>, entry_marks |-> mks,
     result |-> HotPathTree_new(0, <<>>)]

\* The coldness of the walks of the cold children: `coldness + 1`.
ChildColdness_Same(coldness) == coldness

ChildColdness(coldness) == coldness + 1

PropagateInputs_None(mks, coldness, inputs, keep_alives) == inputs

PropagateInputs_Inclusive(mks, coldness, inputs, keep_alives) ==
    inputs \cup {out \in keep_alives : mks[Definer(out)] <= coldness}

\* The loop `for &out in &keep_alives` of KeepAlive::walk: the inputs after it.
PropagateInputs(mks, coldness, inputs, keep_alives) ==
    inputs \cup {out \in keep_alives : mks[Definer(out)] < coldness}

\* assert_ne!(self.marks[node], 0) holds for every Out of keep_alives.
KeepAlivesMarked(mks, keep_alives) ==
    \A out \in keep_alives : mks[Definer(out)] # 0

Unmark_All(mks, nodes) == [n \in DOMAIN mks |-> 0]

Unmark_SkipsFirst(mks, nodes) ==
    [n \in DOMAIN mks |-> IF n \in Range(Tail(nodes)) THEN 0 ELSE mks[n]]

\* The loop `for &node in &*nodes` of KeepAlive::walk: the marks after it.
Unmark(mks, nodes) ==
    [n \in DOMAIN mks |-> IF n \in Range(nodes) THEN 0 ELSE mks[n]]

\* assert_eq!(self.marks[node], coldness) holds for every node of nodes.
\* Each iteration clears the mark it has checked, so a node listed twice
\* fails the assertion the second time.
NodesMarked(mks, coldness, nodes) ==
    /\ \A i \in DOMAIN nodes : mks[nodes[i]] = coldness
    /\ \A i, j \in DOMAIN nodes : nodes[i] = nodes[j] => i = j

KATop == kaStack[Len(kaStack)]

SetKATop(f) == [kaStack EXCEPT ![Len(kaStack)] = f]

\* KeepAlive::walk, first part: find the hot path and flood from its exit.
KAFlood ==
    /\ phase = "ka"
    /\ KATop.pc = "entry"
    /\ LET top == KATop
           hp  == hot_path(cft.t, top.cft)
           f   == flood(dataflow, marks, top.coldness, top.inputs, {}, hp.exit)
       IN  /\ marks' = f.marks
           /\ kaStack' = SetKATop([top EXCEPT !.pc = "loop", !.colds = hp.colds,
                                     !.exit = hp.exit, !.nodes = f.nodes,
                                     !.inputs = f.inputs])
           /\ log' = [op |-> "flood", cft |-> top.cft, coldness |-> top.coldness,
                      keep_alives |-> {}, before |-> top.inputs, after |-> f.inputs]
    /\ UNCHANGED <<dataflow, cft, caller, phase, trees, bStack, ebbs>>
    /\ UNCHANGED <<labelVars, asmVars>>

\* KeepAlive::walk, `self.walk(c, &mut keep_alives, coldness + 1)` for the
\* next cold child of the guard in hand.
KARecurse ==
    /\ phase = "ka"
    /\ KATop.pc = "loop"
    /\ KATop.gi <= Len(KATop.colds)
    /\ KATop.ci <= Len(KATop.colds[KATop.gi].colds)
    /\ LET top == KATop
       IN  /\ kaStack' = Append(kaStack,
                  KAFrame(top.colds[top.gi].colds[top.ci], top.keep_alives,
                          ChildColdness(top.coldness), marks))
           /\ log' = [op |-> "call", cft |-> top.cft, coldness |-> top.coldness,
                      keep_alives |-> top.keep_alives, before |-> top.inputs,
                      after |-> top.inputs]
    /\ UNCHANGED <<dataflow, cft, caller, phase, marks, trees, bStack, ebbs>>
    /\ UNCHANGED <<labelVars, asmVars>>

\* A recursive KeepAlive::walk returns its HotPathTree; the inputs it has
\* collected are in the caller's keep_alives.
KAReturn ==
    /\ phase = "ka"
    /\ KATop.pc = "exit"
    /\ Len(kaStack) > 1
    /\ LET top    == KATop
           parent == kaStack[Len(kaStack) - 1]
       IN  /\ kaStack' = [SubSeq(kaStack, 1, Len(kaStack) - 1)
                            EXCEPT ![Len(kaStack) - 1] =
                                [parent EXCEPT !.keep_alives = top.inputs,
                                               !.ci = @ + 1]]
           /\ trees' = (top.cft :> top.result) @@ trees
           /\ log' = [op |-> "return", cft |-> top.cft, coldness |-> top.coldness,
                      keep_alives |-> top.inputs, before |-> parent.inputs,
                      after |-> parent.inputs]
    /\ UNCHANGED <<dataflow, cft, caller, phase, marks, bStack, ebbs>>
    /\ UNCHANGED <<labelVars, asmVars>>

\* KeepAlive::walk, after the cold children of one guard: propagate their
\* inputs and construct the GuardFailure.
KAGuard ==
    /\ phase = "ka"
    /\ KATop.pc = "loop"
    /\ KATop.gi <= Len(KATop.colds)
    /\ KATop.ci > Len(KATop.colds[KATop.gi].colds)
    /\ LET top == KATop
           inputs == PropagateInputs(marks, top.coldness, top.inputs, top.keep_alives)
           gf == [cold |-> top.colds[top.gi], keep_alives |-> top.keep_alives]
       IN  IF KeepAlivesMarked(marks, top.keep_alives)
           THEN /\ kaStack' = SetKATop([top EXCEPT !.inputs = inputs,
                                          !.children = Append(@, gf),
                                          !.gi = @ + 1, !.ci = 1,
                                          !.keep_alives = {}])
                /\ log' = [op |-> "guard", cft |-> top.cft, coldness |-> top.coldness,
                           keep_alives |-> top.keep_alives, before |-> top.inputs,
                           after |-> inputs]
                /\ UNCHANGED phase
           ELSE /\ phase' = "panic"
                /\ log' = [op |-> "assert_ne", cft |-> top.cft,
                           coldness |-> top.coldness,
                           keep_alives |-> top.keep_alives, before |-> top.inputs,
                           after |-> top.inputs]
                /\ UNCHANGED kaStack
    /\ UNCHANGED <<dataflow, cft, caller, marks, trees, bStack, ebbs>>
    /\ UNCHANGED <<labelVars, asmVars>>

\* KeepAlive::walk, last part: unmark what flood marked and construct the
\* HotPathTree.
KAUnmark ==
    /\ phase = "ka"
    /\ KATop.pc = "loop"
    /\ KATop.gi > Len(KATop.colds)
    /\ LET top == KATop
       IN  IF NodesMarked(marks, top.coldness, top.nodes)
           THEN /\ marks' = Unmark(marks, top.nodes)
                /\ kaStack' = SetKATop([top EXCEPT !.pc = "exit",
                                  !.result = HotPathTree_new(top.exit, top.children)])
                /\ log' = [op |-> "unmark", cft |-> top.cft, coldness |-> top.coldness,
                           keep_alives |-> {}, before |-> top.inputs,
                           after |-> top.inputs]
                /\ UNCHANGED phase
           ELSE /\ phase' = "panic"
                /\ log' = [op |-> "assert_eq", cft |-> top.cft,
                           coldness |-> top.coldness, keep_alives |-> {},
                           before |-> top.inputs, after |-> top.inputs]
                /\ UNCHANGED <<marks, kaStack>>
    /\ UNCHANGED <<dataflow, cft, caller, trees, bStack, ebbs>>
    /\ UNCHANGED <<labelVars, asmVars>>

\* keep_alive_sets returns the HotPathTree of the root.
KeepAliveSetsReturn ==
    /\ phase = "ka"
    /\ KATop.pc = "exit"
    /\ Len(kaStack) = 1
    /\ trees' = (KATop.cft :> KATop.result) @@ trees
    /\ kaStack' = <<>>
    /\ phase' = "tree"
    /\ log' = [op |-> "return", cft |-> KATop.cft, coldness |-> KATop.coldness,
               keep_alives |-> KATop.inputs, before |-> {}, after |-> {}]
    /\ UNCHANGED <<dataflow, cft, caller, marks, bStack, ebbs>>
    /\ UNCHANGED <<labelVars, asmVars>>

-----------------------------------------------------------------------------
(* What the walks are measured against: reachability in the dataflow graph *)
(* and the nodes of the paths of a control-flow tree, computed without any *)
(* marks.                                                                  *)

\* The nodes that node n depends on directly, by data or by effect.
Preds(df, n) == {Definer(df.ins[n][i]) : i \in DOMAIN df.ins[n]} \cup Range(df.deps[n])

RECURSIVE Reach(_, _)
Reach(df, S) ==
    LET next == S \cup UNION {Preds(df, n) : n \in S}
    IN  IF next = S THEN S ELSE Reach(df, next)

\* The Outs read by the nodes of S.
ReadBy(df, S) == UNION {Range(df.ins[n]) : n \in S}

\* The nodes computed on the hot path of the tree id, given the nodes M
\* computed on the hotter paths.
HotNodes(id, M) == Reach(dataflow, {hot_path(cft.t, id).exit}) \ M

\* The cold children of the guards passed on the hot path of the tree id.
ColdChildren(id) ==
    LET colds == hot_path(cft.t, id).colds
    IN  UNION {Range(colds[i].colds) : i \in DOMAIN colds}

\* The nodes computed on some path of the tree id (its hot path or any path
\* that diverges from it), given the nodes M computed on the hotter paths.
RECURSIVE SubtreeNodes(_, _)
SubtreeNodes(id, M) ==
    LET H == HotNodes(id, M)
    IN  H \cup UNION {SubtreeNodes(c, M \cup H) : c \in ColdChildren(id)}

\* One record for every guard passed on a path of the tree id: the tree
\* whose hot path passes it, the nodes computed on that path or a hotter one,
\* and the cold children of the guard.
RECURSIVE GuardFacts(_, _)
GuardFacts(id, M) ==
    LET hp == hot_path(cft.t, id)
        M2 == M \cup HotNodes(id, M)
    IN  {[tree |-> id, guard |-> hp.colds[i].guard, hotter |-> M2,
          colds |-> Range(hp.colds[i].colds)] : i \in DOMAIN hp.colds}
        \cup UNION {GuardFacts(c, M2) : c \in ColdChildren(id)}

AllGuardFacts == GuardFacts(cft.root, {entry_node})

\* The GuardFailure that keep_alive_sets has constructed for a guard.
GuardFailureOf(fact) == trees[fact.tree].children[fact.guard]

\* The nodes on the hot paths of the activations of KeepAlive::walk that
\* enclose the innermost one.
AncestorHot ==
    Reach(dataflow,
          {hot_path(cft.t, kaStack[i].cft).exit : i \in 1 .. (Len(kaStack) - 1)})

-----------------------------------------------------------------------------
(* The builder (builder/mod.rs).                                           *)

\* Builder::new
Builder_new(df) == [node_map(df) EXCEPT ![entry_node] = 1]

\* Builder::is_guard
is_guard(df, node) == df.op[node] = "Guard"

RECURSIVE TopoOrders_Any(_, _)
TopoOrders_Any(df, S) ==
    IF S = {} THEN {<<>>}
    ELSE UNION {{<<n>> \o rest : rest \in TopoOrders_Any(df, S \ {n})} : n \in S}

\* The orders of the nodes of S in which every node comes after those of its
\* data and effect predecessors that are in S.
RECURSIVE TopoOrders(_, _)
TopoOrders(df, S) ==
    IF S = {} THEN {<<>>}
    ELSE UNION {{<<n>> \o rest : rest \in TopoOrders(df, S \ {n})} :
                  n \in {m \in S : Preds(df, m) \cap S = {}}}

\* code::Variable: a Register or a Slot.  Unknown stands for the Variable
\* of an Out that the walk asked for holds no Variable for.
Register(r) == [kind |-> "Register", index |-> r]

Slot(n) == [kind |-> "Slot", index |-> n]

Unknown == [kind |-> "Unknown", index |-> 0]

\* The number of registers the allocator may use.
NUM_REGISTERS == 2

\* all_registers(), as indices
all_registers == 0 .. (NUM_REGISTERS - 1)

\* `map.get(&out)`, for a map that may not hold out.
Lookup(map, out) == IF out \in DOMAIN map THEN map[out] ELSE Unknown

\* The Conventions that build may be called with: the values live on entry
\* are in registers, then in slots, and one more slot may be in use.
BeforeConventions ==
    LET in_slots == IF NumInputs > NUM_REGISTERS THEN NumInputs - NUM_REGISTERS ELSE 0
    IN  {[slots_used |-> s,
          live_values |-> [i \in 1 .. NumInputs |->
                             IF i <= NUM_REGISTERS THEN Register(i - 1)
                             ELSE Slot(i - 1 - NUM_REGISTERS)]] :
            s \in in_slots .. (in_slots + 1)}

\* build: input_map, the Variable of each Out of the entry node.
input_map(before) ==
    [out \in {<<entry_node, i>> : i \in 0 .. (Len(before.live_values) - 1)} |->
        before.live_values[out[2] + 1]]

KeepAlivesFor_None(tree, node) == {}

\* `|node| tree.children.get(&node).map(|child| &child.keep_alives)`, with
\* the empty set for None.
KeepAlivesFor(tree, node) ==
    IF node \in DOMAIN tree.children THEN tree.children[node].keep_alives ELSE {}

MaxOf(S) == CHOOSE x \in S : \A y \in S : y <= x

MinOf(S) == CHOOSE x \in S : \A y \in S : x <= y

\* Instruction::Node and Instruction::Spill
Node(node) == [kind |-> "Node", node |-> node]

Spill(out1, out2) == [kind |-> "Spill", out1 |-> out1, out2 |-> out2]

\* No Out: what an unused register holds.
NoOut == <<>>

\* The positions of `order` at which out is used: read by the node, or kept
\* alive for the cold paths of the guard, if out is defined before it.
UsesOf(df, tree, order, out) ==
    {i \in DOMAIN order :
        \/ out \in Range(df.ins[order[i]])
        \/ /\ out \in KeepAlivesFor(tree, order[i])
           /\ \A j \in DOMAIN order : order[j] = Definer(out) => j < i}

\* The last use of out, 0 if it has none.
LastUse(df, tree, order, out) ==
    LET uses == UsesOf(df, tree, order, out)
    IN  IF uses = {} THEN 0 ELSE MaxOf(uses)

\* The next use of out at position i or later, Len(order) + 1 if none.
NextUse(df, tree, order, out, i) ==
    LET uses == {u \in UsesOf(df, tree, order, out) : u >= i}
    IN  IF uses = {} THEN Len(order) + 1 ELSE MinOf(uses)

\* The registers free for the Outs of the node at position i: those that
\* hold nothing, or an Out with no use after i.
FreeRegisters(df, tree, order, regs, i) ==
    {r \in all_registers :
        regs[r] = NoOut \/ LastUse(df, tree, order, regs[r]) <= i}

\* The Out in a register of rs whose next use is the furthest.
Furthest(df, tree, order, regs, rs, i) ==
    LET rank(r) == NextUse(df, tree, order, regs[r], i) * 64
                     + regs[r][1] * 8 + regs[r][2]
    IN  CHOOSE r \in rs : \A q \in rs : rank(q) <= rank(r)

\* The allocator at one Out of the node at position i: take a free
\* register; if there is none, spill the two Outs used furthest ahead.
AllocateOut(df, tree, order, st, i, out) ==
    LET free == FreeRegisters(df, tree, order, st.regs, i)
    IN  IF free # {}
        THEN LET r == MinOf(free)
             IN  [st EXCEPT !.regs[r] = out,
                            !.allocation = (out :> r) @@ @]
        ELSE LET r1 == Furthest(df, tree, order, st.regs, all_registers, i)
                 r2 == Furthest(df, tree, order, st.regs, all_registers \ {r1}, i)
                 r  == MinOf({r1, r2})
             IN  [st EXCEPT !.regs = [@ EXCEPT ![r1] = NoOut, ![r2] = NoOut, ![r] = out],
                            !.allocation = (out :> r) @@ @,
                            !.instructions =
                                Append(@, Spill(st.regs[r1], st.regs[r2]))]

\* The Outs of the node at position i from the k-th on, then the node.
RECURSIVE AllocateNode(_, _, _, _, _, _)
AllocateNode(df, tree, order, st, i, k) ==
    IF k >= df.num_outs[order[i]]
    THEN [st EXCEPT !.instructions = Append(@, Node(order[i]))]
    ELSE AllocateNode(df, tree, order,
                      AllocateOut(df, tree, order, st, i, <<order[i], k>>), i, k + 1)

\* The linear scan from position i on.
RECURSIVE LinearScan(_, _, _, _, _)
LinearScan(df, tree, order, st, i) ==
    IF i > Len(order) THEN st
    ELSE LinearScan(df, tree, order, AllocateNode(df, tree, order, st, i, 0), i + 1)

\* allocate: what it may return for the nodes that flood returned.  The
\* nodes are scheduled once each, after their predecessors; the Outs that
\* `variables` places in registers hold them on entry.
allocate(effects, variables, df, nodes, tree) ==
    {LET held(r) == {out \in DOMAIN variables : variables[out] = Register(r)}
         st0 == [regs |-> [r \in all_registers |->
                             IF held(r) = {} THEN NoOut ELSE CHOOSE out \in held(r) : TRUE],
                 allocation |-> <<>>,
                 instructions |-> <<>>]
         st  == LinearScan(df, tree, order, st0, 1)
     IN  [instructions |-> st.instructions, allocation |-> st.allocation] :
        order \in TopoOrders(df, Range(nodes))}

RECURSIVE AssignVariables_OneSlot(_, _, _, _, _)
AssignVariables_OneSlot(df, instructions, allocation, st, i) ==
    IF i > Len(instructions) THEN st
    ELSE LET instruction == instructions[i]
         IN  IF instruction.kind = "Spill"
             THEN AssignVariables_OneSlot(df, instructions, allocation,
                      [st EXCEPT !.variables =
                                     (instruction.out2 :> Slot(st.slots_used))
                                       @@ (instruction.out1 :> Slot(st.slots_used)) @@ @,
                                 !.slots_used = @ + 1],
                      i + 1)
             ELSE IF \E out \in OutsOf(df, instruction.node) : out \notin DOMAIN allocation
             THEN [st EXCEPT !.ok = FALSE]
             ELSE AssignVariables_OneSlot(df, instructions, allocation,
                      [st EXCEPT !.variables =
                                     [out \in OutsOf(df, instruction.node) |->
                                         Register(allocation[out])] @@ @],
                      i + 1)

\* Builder::walk, "Allocate spill slots on the hot path": the instructions
\* from the i-th on.  A Spill puts out1 in the next slot and out2 in the
\* one after it; a Node puts its Outs in their allocated registers, and ok
\* becomes FALSE where `expect("Missing destination register")` panics.
RECURSIVE AssignVariables(_, _, _, _, _)
AssignVariables(df, instructions, allocation, st, i) ==
    IF i > Len(instructions) THEN st
    ELSE LET instruction == instructions[i]
         IN  IF instruction.kind = "Spill"
             THEN AssignVariables(df, instructions, allocation,
                      [st EXCEPT !.variables =
                                     (instruction.out2 :> Slot(st.slots_used + 1))
                                       @@ (instruction.out1 :> Slot(st.slots_used)) @@ @,
                                 !.slots_used = @ + 2],
                      i + 1)
             ELSE IF \E out \in OutsOf(df, instruction.node) : out \notin DOMAIN allocation
             THEN [st EXCEPT !.ok = FALSE]
             ELSE AssignVariables(df, instructions, allocation,
                      [st EXCEPT !.variables =
                                     [out \in OutsOf(df, instruction.node) |->
                                         Register(allocation[out])] @@ @],
                      i + 1)

\* The Variable an Out is in before it is spilled: its allocated register,
\* or the Variable it is in on entry.
Unspilled(allocation, input_variables, out) ==
    IF out \in DOMAIN allocation THEN Register(allocation[out])
    ELSE Lookup(input_variables, out)

\* CodeGen::new: the state of the code generator at the end of the segment.
CodeGen_new(allocation, slots_used, variables, input_variables) ==
    [allocation |-> allocation, slots_used |-> slots_used,
     variables |-> variables, input_variables |-> input_variables,
     actions |-> <<>>]

\* CodeGen::add_spill, in the reverse pass: before the Spill the two slots
\* are unused and the two Outs are where they were.
add_spill(cg, out1, out2) ==
    [cg EXCEPT !.slots_used = @ - 2,
               !.variables = (out1 :> Unspilled(cg.allocation, cg.input_variables, out1))
                              @@ (out2 :> Unspilled(cg.allocation, cg.input_variables, out2))
                              @@ @]

\* CodeGen::add_node, in the reverse pass: the Action of the node comes
\* before those of the nodes after it.
add_node(cg, node) == [cg EXCEPT !.actions = <<node>> \o @]

\* CodeGen::read
read(cg, out) == Lookup(cg.variables, out)

\* CodeGen::slots_used
slots_used(cg) == cg.slots_used

\* CodeGen::ebb: the EBB of the Actions added so far and the ending, and
\* the code generator that goes on before them.
ebb(cg, ending) ==
    [ebb |-> [actions |-> cg.actions, ending |-> ending],
     cg  |-> [cg EXCEPT !.actions = <<>>]]

\* Ending::Leaf and Ending::Switch(code::Switch::Index {..})
Leaf(leaf) ==
    [kind |-> "Leaf", leaf |-> leaf, discriminant |-> Unknown,
     cases |-> <<>>, default_ |-> <<>>]

SwitchIndex(discriminant, cases, default_) ==
    [kind |-> "Switch", leaf |-> 0, discriminant |-> discriminant,
     cases |-> cases, default_ |-> default_]

\* Dataflow::cost: a Convention needs no resources, every other node does.
cost(df, node) == [resources |-> IF df.op[node] = "Convention" THEN 0 ELSE 1]

Resources_new(n) == n

AddsAction_Always(df, node) == TRUE

\* `self.dataflow.cost(node).resources != Resources::new(0)`
AddsAction(df, node) == cost(df, node).resources # Resources_new(0)

\* An activation record of Builder::walk(tree, coldness, slots_used, input,
\* ..), where `input` is given by the map it looks up.
BFrame(id, coldness, slots, input, mks) ==
    [tree |-> id, coldness |-> coldness, slots_used |-> slots,
     input |-> input, pc |-> "entry", nodes |-> <<>>,
     inputs |-> {}, effects |-> {}, instructions |-> <<>>, idx |-> 0,
     colds |-> <<>>, ci |-> 1, entry_marks |-> mks,
     cg |-> CodeGen_new(<<>>, 0, <<>>, <<>>), ending |-> Leaf(0),
     hot |-> <<>>, cold_ebbs |-> <<>>, ebb |-> <<>>]

ColdWalk_SameColdness(id, coldness, cg, mks) ==
    BFrame(id, coldness, slots_used(cg), cg.variables, mks)

\* `self.walk(child, coldness + 1, cg.slots_used(), &mut |out| cg.read(out),
\* lookup_leaf)`: the activation it starts.
ColdWalk(id, coldness, cg, mks) ==
    BFrame(id, coldness + 1, slots_used(cg), cg.variables, mks)

BTop == bStack[Len(bStack)]

SetBTop(f) == [bStack EXCEPT ![Len(bStack)] = f]

\* The instruction that the reverse pass of the innermost walk is at.
BInstruction == BTop.instructions[BTop.idx]

ClearMark_Keeps(mks, node) == mks

\* `self.marks[node] = 0`
ClearMark(mks, node) == [mks EXCEPT ![node] = 0]

\* `tree.children.get(&node)` finds a GuardFailure.
HasGuardFailure(tree, node) == node \in DOMAIN tree.children

BLog(op) == [op |-> op, cft |-> BTop.tree, coldness |-> BTop.coldness,
             keep_alives |-> {}, before |-> {}, after |-> {}]

\* build, after keep_alive_sets: construct the Builder and call
\* walk(&tree, 2, before.slots_used, |out| input_map[out], ..).
BuilderWalk ==
    /\ phase = "tree"
    /\ caller = "build"
    /\ phase' = "builder"
    /\ marks' = Builder_new(dataflow)
    /\ \E before \in BeforeConventions :
          bStack' = <<BFrame(cft.root, 2, before.slots_used, input_map(before),
                             Builder_new(dataflow))>>
    /\ log' = [op |-> "call", cft |-> cft.root, coldness |-> 2,
               keep_alives |-> {}, before |-> {}, after |-> {}]
    /\ UNCHANGED <<dataflow, cft, caller, kaStack, trees, ebbs>>
    /\ UNCHANGED <<labelVars, asmVars>>

\* Builder::walk up to the reverse pass: flood from the exit, look up the
\* Variables of the inputs, allocate, assign the spill slots, construct the
\* code generator and clear the mark of the exit.
BFlood ==
    /\ phase = "builder"
    /\ BTop.pc = "entry"
    /\ LET top  == BTop
           tree == trees[top.tree]
           f    == flood(dataflow, marks, top.coldness, {}, {}, tree.exit)
           input_variables == [out \in f.inputs |-> Lookup(top.input, out)]
       IN  \E a \in allocate(f.effects, input_variables, dataflow, f.nodes, tree) :
              LET st == AssignVariables(dataflow, a.instructions, a.allocation,
                            [slots_used |-> top.slots_used,
                             variables |-> input_variables, ok |-> TRUE], 1)
              IN  IF st.ok
                  THEN /\ bStack' = SetBTop([top EXCEPT
                              !.pc = "loop", !.nodes = f.nodes,
                              !.inputs = f.inputs, !.effects = f.effects,
                              !.instructions = a.instructions,
                              !.idx = Len(a.instructions),
                              !.cg = CodeGen_new(a.allocation, st.slots_used,
                                                 st.variables, input_variables),
                              !.ending = Leaf(tree.exit)])
                       /\ marks' = ClearMark(f.marks, tree.exit)
                       /\ log' = BLog("flood")
                       /\ UNCHANGED phase
                  ELSE /\ phase' = "panic"
                       /\ marks' = f.marks
                       /\ log' = BLog("Missing destination register")
                       /\ UNCHANGED bStack
    /\ UNCHANGED <<dataflow, cft, caller, kaStack, trees, ebbs>>
    /\ UNCHANGED <<labelVars, asmVars>>

\* The reverse pass at a Spill.
BSpill ==
    /\ phase = "builder"
    /\ BTop.pc = "loop"
    /\ BTop.idx >= 1
    /\ BInstruction.kind = "Spill"
    /\ bStack' = SetBTop([BTop EXCEPT
                    !.cg = add_spill(@, BInstruction.out1, BInstruction.out2),
                    !.idx = @ - 1])
    /\ log' = BLog("spill")
    /\ UNCHANGED <<dataflow, cft, caller, phase, marks, kaStack, trees, ebbs>>
    /\ UNCHANGED <<labelVars, asmVars>>

\* The reverse pass at a node that is not a guard.
BNode ==
    /\ phase = "builder"
    /\ BTop.pc = "loop"
    /\ BTop.idx >= 1
    /\ BInstruction.kind = "Node"
    /\ ~is_guard(dataflow, BInstruction.node)
    /\ marks' = ClearMark(marks, BInstruction.node)
    /\ bStack' = SetBTop([BTop EXCEPT
                    !.cg = IF AddsAction(dataflow, BInstruction.node)
                           THEN add_node(@, BInstruction.node) ELSE @,
                    !.idx = @ - 1])
    /\ log' = BLog("node")
    /\ UNCHANGED <<dataflow, cft, caller, phase, kaStack, trees, ebbs>>
    /\ UNCHANGED <<labelVars, asmVars>>

\* The reverse pass at a guard: the EBB of what follows it is the hot case;
\* look up its GuardFailure.
BGuard ==
    /\ phase = "builder"
    /\ BTop.pc = "loop"
    /\ BTop.idx >= 1
    /\ BInstruction.kind = "Node"
    /\ is_guard(dataflow, BInstruction.node)
    /\ IF HasGuardFailure(trees[BTop.tree], BInstruction.node)
       THEN /\ LET hot == ebb(BTop.cg, BTop.ending)
               IN  bStack' = SetBTop([BTop EXCEPT !.pc = "guard", !.ci = 1,
                       !.hot = hot.ebb, !.cg = hot.cg, !.cold_ebbs = <<>>,
                       !.colds = trees[BTop.tree].children[BInstruction.node].cold.colds])
            /\ log' = BLog("guard")
            /\ UNCHANGED phase
       ELSE /\ phase' = "panic"
            /\ log' = BLog("Missing GuardFailure")
            /\ UNCHANGED bStack
    /\ UNCHANGED <<dataflow, cft, caller, marks, kaStack, trees, ebbs>>
    /\ UNCHANGED <<labelVars, asmVars>>

\* `self.walk(child, coldness + 1, ..)` for the next cold child of the guard.
BRecurse ==
    /\ phase = "builder"
    /\ BTop.pc = "guard"
    /\ BTop.ci <= Len(BTop.colds)
    /\ bStack' = Append(bStack, ColdWalk(BTop.colds[BTop.ci], BTop.coldness,
                                         BTop.cg, marks))
    /\ log' = BLog("call")
    /\ UNCHANGED <<dataflow, cft, caller, phase, marks, kaStack, trees, ebbs>>
    /\ UNCHANGED <<labelVars, asmVars>>

\* The end of the reverse pass: `cg.ebb(ending)` is the EBB of the walk.
BFinish ==
    /\ phase = "builder"
    /\ BTop.pc = "loop"
    /\ BTop.idx = 0
    /\ LET last == ebb(BTop.cg, BTop.ending)
       IN  bStack' = SetBTop([BTop EXCEPT !.pc = "exit", !.ebb = last.ebb,
                                           !.cg = last.cg])
    /\ log' = BLog("finish")
    /\ UNCHANGED <<dataflow, cft, caller, phase, marks, kaStack, trees, ebbs>>
    /\ UNCHANGED <<labelVars, asmVars>>

\* A recursive Builder::walk returns the EBB of a cold child.
BReturn ==
    /\ phase = "builder"
    /\ BTop.pc = "exit"
    /\ Len(bStack) > 1
    /\ bStack' = [SubSeq(bStack, 1, Len(bStack) - 1)
                    EXCEPT ![Len(bStack) - 1].ci = @ + 1,
                           ![Len(bStack) - 1].cold_ebbs = Append(@, BTop.ebb)]
    /\ ebbs' = (BTop.tree :> BTop.ebb) @@ ebbs
    /\ log' = BLog("return")
    /\ UNCHANGED <<dataflow, cft, caller, phase, marks, kaStack, trees>>
    /\ UNCHANGED <<labelVars, asmVars>>

\* The reverse pass after the cold children of a guard: insert_hot puts the
\* hot EBB among the cold ones, the Switch on the guard's one input becomes
\* the ending (the guard must have exactly one input) and the mark of the
\* guard is cleared.
BSwitch ==
    /\ phase = "builder"
    /\ BTop.pc = "guard"
    /\ BTop.ci > Len(BTop.colds)
    /\ LET gf == trees[BTop.tree].children[BInstruction.node]
           cft_switch == insert_hot([gf.cold EXCEPT !.colds = BTop.cold_ebbs],
                                    BTop.hot)
           outs == dataflow.ins[cft_switch.guard]
       IN  IF Len(outs) = 1
           THEN /\ marks' = ClearMark(marks, BInstruction.node)
                /\ bStack' = SetBTop([BTop EXCEPT !.pc = "loop", !.idx = @ - 1,
                        !.ending = SwitchIndex(read(BTop.cg, outs[1]),
                                               cft_switch.cases,
                                               cft_switch.default_)])
                /\ log' = BLog("switch")
                /\ UNCHANGED phase
           ELSE /\ phase' = "panic"
                /\ log' = BLog("assert_eq")
                /\ UNCHANGED <<marks, bStack>>
    /\ UNCHANGED <<dataflow, cft, caller, kaStack, trees, ebbs>>
    /\ UNCHANGED <<labelVars, asmVars>>

\* build returns the EBB of the root.
BuildReturn ==
    /\ phase = "builder"
    /\ BTop.pc = "exit"
    /\ Len(bStack) = 1
    /\ bStack' = <<>>
    /\ ebbs' = (BTop.tree :> BTop.ebb) @@ ebbs
    /\ phase' = "done"
    /\ log' = BLog("return")
    /\ UNCHANGED <<dataflow, cft, caller, marks, kaStack, trees>>
    /\ UNCHANGED <<labelVars, asmVars>>

-----------------------------------------------------------------------------
(* The assembler's patchable jumps (x86_64/assembler.rs).                  *)

None == [some |-> FALSE, v |-> 0]

Some(x) == [some |-> TRUE, v |-> x]

\* const UNKNOWN_DISP: i32 = -0x80000000
UNKNOWN_DISP == (-2147483647) - 1

\* A usize or the magnitude of an isize: four limbs of 16 bits, the least
\* significant first.  The addresses of the buffer are kept as naturals and
\* converted by Usize where the code passes them to disp32.
Limb == 65536

Usize(n) == <<n % Limb, n \div Limb, 0, 0>>

\* isize::MAX as usize, i32::MAX as isize and the magnitude of i32::MIN
ISIZE_MAX == <<65535, 65535, 65535, 32767>>

I32_MAX == <<65535, 32767, 0, 0>>

I32_MIN_MAG == <<0, 32768, 0, 0>>

\* a > b
WideGreater(a, b) ==
    \E i \in 1 .. 4 : a[i] > b[i] /\ \A j \in (i + 1) .. 4 : a[j] = b[j]

\* a - b for a >= b, limb by limb with borrow.
RECURSIVE WideSubFrom(_, _, _, _)
WideSubFrom(a, b, i, borrow) ==
    IF i > 4 THEN <<>>
    ELSE LET d == a[i] - b[i] - borrow
         IN  IF d < 0 THEN <<d + Limb>> \o WideSubFrom(a, b, i + 1, 1)
             ELSE <<d>> \o WideSubFrom(a, b, i + 1, 0)

WideSub(a, b) == WideSubFrom(a, b, 1, 0)

\* An isize: sign and magnitude.
Isize(neg, mag) == [neg |-> neg, mag |-> mag]

\* `disp as i32`: the low 32 bits of the two's complement of d.
AsI32(d) ==
    LET l == d.mag[1]
        h == d.mag[2]
        u == IF ~d.neg \/ (l = 0 /\ h = 0) THEN <<l, h>>
             ELSE IF l = 0 THEN <<0, Limb - h>>
             ELSE <<Limb - l, (Limb - 1) - h>>
    IN  IF u[2] < 32768 THEN u[2] * Limb + u[1]
        ELSE (((u[2] - 32768) * Limb + u[1]) - 2147483647) - 1

\* disp: the displacement from `from` to `to`; ok is FALSE if it panics.
disp(from, to) ==
    IF WideGreater(from, ISIZE_MAX) \/ WideGreater(to, ISIZE_MAX)
    THEN [ok |-> FALSE, v |-> Isize(FALSE, Usize(0))]
    ELSE [ok |-> TRUE,
          v  |-> IF WideGreater(from, to) THEN Isize(TRUE, WideSub(from, to))
                 ELSE Isize(FALSE, WideSub(to, from))]

disp32_Truncates(from, to) ==
    LET d == disp(from, to)
    IN  IF ~d.ok THEN [ok |-> FALSE, v |-> 0]
        ELSE [ok |-> TRUE, v |-> AsI32(d.v)]

\* disp32: the displacement as an i32; ok is FALSE if it panics.
disp32(from, to) ==
    LET d == disp(from, to)
    IN  IF ~d.ok THEN [ok |-> FALSE, v |-> 0]
        ELSE IF \/ ~d.v.neg /\ WideGreater(d.v.mag, I32_MAX)
                \/ d.v.neg /\ WideGreater(d.v.mag, I32_MIN_MAG)
             THEN [ok |-> FALSE, v |-> 0]
             ELSE [ok |-> TRUE, v |-> AsI32(d.v)]

optional_disp32_NoneIsZero(from, to) ==
    IF to.some THEN disp32(from, to.v)
    ELSE [ok |-> TRUE, v |-> 0]

\* optional_disp32, on usize addresses.
optional_disp32_usize(from, to) ==
    IF to.some THEN disp32(from, to.v)
    ELSE [ok |-> TRUE, v |-> UNKNOWN_DISP]

\* optional_disp32, on addresses of the buffer.
optional_disp32(from, to) ==
    optional_disp32_usize(Usize(from), [some |-> to.some, v |-> Usize(to.v)])

\* The little-endian bytes of the low `len` bytes of v >= 0.
RECURSIVE LEBytes(_, _)
LEBytes(v, len) ==
    IF len = 0 THEN <<>> ELSE <<v % 256>> \o LEBytes(v \div 256, len - 1)

\* `immediate as u32`, as four little-endian bytes: two's complement.
Imm32Bytes(d) ==
    IF d >= 0 THEN LEBytes(d, 4)
    ELSE LET e == (d + 2147483647) + 1
             b == LEBytes(e, 4)
         IN  [b EXCEPT ![4] = @ + 128]

\* Buffer::write: bytes at address at, growing the buffer as needed.
BufWrite(buf, at, bytes) ==
    [a \in 1 .. (IF at + Len(bytes) > Len(buf) THEN at + Len(bytes) ELSE Len(buf)) |->
        IF a > at /\ a <= at + Len(bytes) THEN bytes[a - at]
        ELSE IF a <= Len(buf) THEN buf[a] ELSE 0]

\* Buffer::read_byte
read_byte(buf, at) == IF at + 1 <= Len(buf) THEN buf[at + 1] ELSE 0

\* `self.buffer.read(at, 4) as i32`
ReadI32(buf, at) ==
    LET b0 == read_byte(buf, at)
        b1 == read_byte(buf, at + 1)
        b2 == read_byte(buf, at + 2)
        b3 == read_byte(buf, at + 3)
        low == b0 + 256 * b1 + 65536 * b2
    IN  IF b3 < 128 THEN low + 16777216 * b3
        ELSE ((low + 16777216 * (b3 - 128)) - 2147483647) - 1

\* Assembler::patch, the opcode sniffing: the instruction at pos is a
\* jump_if (0F 8x), a const_jump (40 E9) or a const_call (40 E8).
IsPatchable(buf, p) ==
    \/ read_byte(buf, p) = 15 /\ read_byte(buf, p + 1) \div 16 = 8
    \/ read_byte(buf, p) = 64 /\ read_byte(buf, p + 1) = 233
    \/ read_byte(buf, p) = 64 /\ read_byte(buf, p + 1) = 232

AsmPatch_NoWrite(buf, patch, old_target, new_target) ==
    LET at  == patch + 2
        old == optional_disp32(at + 4, old_target)
        new == optional_disp32(at + 4, new_target)
    IN  IF ~IsPatchable(buf, patch) THEN [ok |-> FALSE, buffer |-> buf]
        ELSE IF ~old.ok \/ ReadI32(buf, at) # old.v
             THEN [ok |-> FALSE, buffer |-> buf]
             ELSE IF ~new.ok THEN [ok |-> FALSE, buffer |-> buf]
                  ELSE [ok |-> TRUE, buffer |-> buf]

AsmPatch_FromField(buf, patch, old_target, new_target) ==
    LET at  == patch + 2
        old == optional_disp32(at + 4, old_target)
        new == optional_disp32(at, new_target)
    IN  IF ~IsPatchable(buf, patch) THEN [ok |-> FALSE, buffer |-> buf]
        ELSE IF ~old.ok \/ ReadI32(buf, at) # old.v
             THEN [ok |-> FALSE, buffer |-> buf]
             ELSE IF ~new.ok THEN [ok |-> FALSE, buffer |-> buf]
                  ELSE [ok |-> TRUE,
                        buffer |-> BufWrite(buf, at, Imm32Bytes(new.v))]

AsmPatch_WritesFirst(buf, patch, old_target, new_target) ==
    LET at  == patch + 2
        old == optional_disp32(at + 4, old_target)
        new == optional_disp32(at + 4, new_target)
    IN  IF ~IsPatchable(buf, patch) THEN [ok |-> FALSE, buffer |-> buf]
        ELSE IF ~new.ok THEN [ok |-> FALSE, buffer |-> buf]
             ELSE [ok |-> old.ok /\ ReadI32(buf, at) = old.v,
                   buffer |-> BufWrite(buf, at, Imm32Bytes(new.v))]

AsmPatch_WritesEight(buf, patch, old_target, new_target) ==
    LET at  == patch + 2
        old == optional_disp32(at + 4, old_target)
        new == optional_disp32(at + 4, new_target)
    IN  IF ~IsPatchable(buf, patch) THEN [ok |-> FALSE, buffer |-> buf]
        ELSE IF ~old.ok \/ ReadI32(buf, at) # old.v
             THEN [ok |-> FALSE, buffer |-> buf]
             ELSE IF ~new.ok THEN [ok |-> FALSE, buffer |-> buf]
                  ELSE [ok |-> TRUE,
                        buffer |-> BufWrite(buf, at, Imm32Bytes(new.v) \o <<0, 0, 0, 0>>)]

\* Assembler::patch.  ok is FALSE if it panics: the instruction is not a
\* jump or call, a disp32 panics, or the displacement found is not that of
\* old_target; the buffer is then as it was.
AsmPatch(buf, patch, old_target, new_target) ==
    LET at  == patch + 2
        old == optional_disp32(at + 4, old_target)
        new == optional_disp32(at + 4, new_target)
    IN  IF ~IsPatchable(buf, patch) THEN [ok |-> FALSE, buffer |-> buf]
        ELSE IF ~old.ok \/ ReadI32(buf, at) # old.v
             THEN [ok |-> FALSE, buffer |-> buf]
             ELSE IF ~new.ok THEN [ok |-> FALSE, buffer |-> buf]
                  ELSE [ok |-> TRUE,
                        buffer |-> BufWrite(buf, at, Imm32Bytes(new.v))]

\* The two opcode bytes of jump_if(cc, _), const_jump(_) and const_call(_).
Conditions == {4}

JumpKinds == {[name |-> "jump_if", cc |-> cc] : cc \in Conditions}
             \cup {[name |-> "const_jump", cc |-> 0], [name |-> "const_call", cc |-> 0]}

Opcode(kind) ==
    CASE kind.name = "jump_if"    -> <<15, 128 + kind.cc>>
      [] kind.name = "const_jump" -> LEBytes(59712, 2)
      [] kind.name = "const_call" -> LEBytes(59456, 2)

AsmJump_Placeholder(buf, at, kind, target) ==
    LET b1 == BufWrite(buf, at, Opcode(kind))
        b2 == BufWrite(b1, at + 2, Imm32Bytes(UNKNOWN_DISP))
    IN  [ok |-> TRUE, buffer |-> b2, pos |-> at + 6, patch |-> at]

\* Assembler::jump_if, const_jump, const_call: the opcode, the placeholder
\* displacement, then patch(patch, None, target).  The Patch is the address
\* at which the instruction starts.
AsmJump(buf, at, kind, target) ==
    LET b1 == BufWrite(buf, at, Opcode(kind))
        b2 == BufWrite(b1, at + 2, Imm32Bytes(UNKNOWN_DISP))
        r  == AsmPatch(b2, at, None, target)
    IN  [ok |-> r.ok, buffer |-> r.buffer, pos |-> at + 6, patch |-> at]

-----------------------------------------------------------------------------
(* Labels and the Lowerer (target/mod.rs).                                 *)

\* Label::new
Label_new == [target |-> None, patches |-> <<>>]

\* Label::is_defined
is_defined(label) == label.target.some

Label_push_Replaces(label, patch) == [label EXCEPT !.patches = <<patch>>]

\* Label::push
Label_push(label, patch) == [label EXCEPT !.patches = Append(@, patch)]

\* Lowerer::steal of the x86_64 lowerer: every Patch drained from loser is
\* re-pointed from loser's target to winner's and pushed onto winner.
RECURSIVE StealFrom(_, _, _, _)
StealFrom(buf, winner, loser, i) ==
    IF i > Len(loser.patches)
    THEN [ok |-> TRUE, buffer |-> buf, winner |-> winner,
          loser |-> [loser EXCEPT !.patches = <<>>]]
    ELSE LET r == AsmPatch(buf, loser.patches[i], loser.target, winner.target)
         IN  IF r.ok
             THEN StealFrom(r.buffer, Label_push(winner, loser.patches[i]), loser, i + 1)
             ELSE [ok |-> FALSE, buffer |-> buf, winner |-> winner, loser |-> loser]

steal(buf, winner, loser) == StealFrom(buf, winner, loser, 1)

LowererPatch_NoSwap(buf, here, label) ==
    LET old == [Label_new EXCEPT !.target = Some(here)]
        r   == steal(buf, label, old)
    IN  [ok |-> r.ok, buffer |-> r.buffer, label |-> r.winner, old |-> r.loser]

LowererPatch_KeepsTarget(buf, here, label) ==
    LET old == [Label_new EXCEPT !.target = label.target]
        r   == steal(buf, old, label)
    IN  [ok |-> r.ok, buffer |-> r.buffer, label |-> r.winner, old |-> r.loser]

\* Lowerer::patch: `old` is a new Label whose target is the current address;
\* label and old are swapped; label steals from old; old is returned.
LowererPatch(buf, here, label) ==
    LET old == [Label_new EXCEPT !.target = Some(here)]
        r   == steal(buf, old, label)
    IN  [ok |-> r.ok, buffer |-> r.buffer, label |-> r.winner, old |-> r.loser]

\* The last call: its name, the Labels passed (as indices of labels), the
\* kind of jump, and a Label: the one patch returned, or loser as it was
\* when steal was called.
Op(name, label, other, kind, result) ==
    [op |-> name, label |-> label, other |-> other, kind |-> kind, result |-> result]

\* The caller constructs a Label.
NewLabel ==
    /\ lphase = "run"
    /\ Len(labels) < MaxLabels
    /\ labels' = Append(labels, Label_new)
    /\ lastOp' = Op("new", Len(labels) + 1, 0, "", Label_new)
    /\ UNCHANGED <<buffer, pos, lphase>>

\* Lowerer::jump(label) and the conditional jumps and calls of the x86_64
\* lowerer: assemble the instruction with the target of label and push its
\* Patch onto label.
Jump(i, kind) ==
    /\ lphase = "run"
    /\ pos + 6 <= MaxPos
    /\ LET r == AsmJump(buffer, pos, kind, labels[i].target)
       IN  IF r.ok
           THEN /\ buffer' = r.buffer
                /\ pos' = r.pos
                /\ labels' = [labels EXCEPT ![i] = Label_push(@, r.patch)]
                /\ UNCHANGED lphase
           ELSE /\ lphase' = "panic"
                /\ UNCHANGED <<buffer, pos, labels>>
    /\ lastOp' = Op("jump", i, 0, kind.name, Label_new)

\* Assembler::ret: an instruction that no Label refers to.
Ret ==
    /\ lphase = "run"
    /\ pos + 2 <= MaxPos
    /\ buffer' = BufWrite(buffer, pos, LEBytes(49984, 2))
    /\ pos' = pos + 2
    /\ lastOp' = Op("ret", 0, 0, "", Label_new)
    /\ UNCHANGED <<labels, lphase>>

\* Lowerer::patch(label).  The caller keeps the Label returned as a new
\* entry of labels while it may hold another Label, and drops it otherwise.
Patch(i) ==
    /\ lphase = "run"
    /\ LET r == LowererPatch(buffer, pos, labels[i])
           keep == Len(labels) < MaxLabels
       IN  IF r.ok
           THEN /\ buffer' = r.buffer
                /\ labels' = IF keep THEN Append([labels EXCEPT ![i] = r.label], r.old)
                             ELSE [labels EXCEPT ![i] = r.label]
                /\ lastOp' = Op("patch", i, 0, "", r.old)
                /\ UNCHANGED lphase
           ELSE /\ lphase' = "panic"
                /\ lastOp' = Op("patch", i, 0, "", Label_new)
                /\ UNCHANGED <<buffer, labels>>
    /\ UNCHANGED pos

\* Lowerer::define(label)
Define(i) ==
    /\ lphase = "run"
    /\ IF is_defined(labels[i])
       THEN /\ lphase' = "panic"
            /\ UNCHANGED <<buffer, labels>>
       ELSE LET r == LowererPatch(buffer, pos, labels[i])
            IN  IF r.ok
                THEN /\ buffer' = r.buffer
                     /\ labels' = [labels EXCEPT ![i] = r.label]
                     /\ UNCHANGED lphase
                ELSE /\ lphase' = "panic"
                     /\ UNCHANGED <<buffer, labels>>
    /\ lastOp' = Op("define", i, 0, "", Label_new)
    /\ UNCHANGED pos

\* Lowerer::steal(winner, loser), on two different Labels.
Steal(w, l) ==
    /\ lphase = "run"
    /\ w # l
    /\ LET r == steal(buffer, labels[w], labels[l])
       IN  IF r.ok
           THEN /\ buffer' = r.buffer
                /\ labels' = [labels EXCEPT ![w] = r.winner, ![l] = r.loser]
                /\ UNCHANGED lphase
           ELSE /\ lphase' = "panic"
                /\ UNCHANGED <<buffer, labels>>
    /\ lastOp' = Op("steal", w, l, "", labels[l])
    /\ UNCHANGED pos

\* No Assembler is driven directly, no Target::execute has been called and
\* no pure function is under test.
AsmIdle ==
    /\ targets = <<>>
    /\ aphase = "idle"
    /\ lastAsm = [op |-> "none"]
    /\ prevAsm = [op |-> "none"]
    /\ perm = "writable"
    /\ owner = "caller"
    /\ outcome = [kind |-> "none"]
    /\ fcall = [f |-> "none"]
    /\ fresult = [kind |-> "none"]

\* Assembler::new, and no Label yet.
InitLabel ==
    /\ buffer = <<>>
    /\ pos = 0
    /\ labels = <<>>
    /\ lphase = "run"
    /\ lastOp = Op("none", 0, 0, "", Label_new)
    /\ AsmIdle
    /\ dataflow = MkDataflow(0, <<>>, <<>>, <<>>, <<>>)
    /\ cft = [root |-> 0, t |-> <<>>]
    /\ caller = "none"
    /\ phase = "idle"
    /\ marks = <<>>
    /\ kaStack = <<>>
    /\ trees = <<>>
    /\ log = "none"
    /\ bStack = <<>>
    /\ ebbs = <<>>

NextLabel ==
    \/ NewLabel /\ UNCHANGED <<buildVars, asmVars>>
    \/ Ret /\ UNCHANGED <<buildVars, asmVars>>
    \/ \E i \in DOMAIN labels, kind \in JumpKinds : Jump(i, kind) /\ UNCHANGED <<buildVars, asmVars>>
    \/ \E i \in DOMAIN labels : Patch(i) /\ UNCHANGED <<buildVars, asmVars>>
    \/ \E i \in DOMAIN labels : Define(i) /\ UNCHANGED <<buildVars, asmVars>>
    \/ \E w, l \in DOMAIN labels : Steal(w, l) /\ UNCHANGED <<buildVars, asmVars>>

SpecLabel == InitLabel /\ [][NextLabel]_vars

-----------------------------------------------------------------------------
(* The specification of build() and of keep_alive_sets().                  *)

\* keep_alive_sets(dataflow, cft) has constructed its KeepAlive and called
\* walk(cft, {}, 2).
InitBuild ==
    /\ \E inst \in Instances :
          /\ dataflow = inst.dataflow
          /\ cft = inst.cft
          /\ caller = inst.caller
    /\ phase = "ka"
    /\ marks = KeepAlive_new(dataflow)
    /\ kaStack = <<KAFrame(cft.root, {}, 2, KeepAlive_new(dataflow))>>
    /\ trees = <<>>
    /\ log = [op |-> "call", cft |-> cft.root, coldness |-> 2, keep_alives |-> {},
              before |-> {}, after |-> {}]
    /\ bStack = <<>>
    /\ ebbs = <<>>
    /\ buffer = <<>>
    /\ pos = 0
    /\ labels = <<>>
    /\ lphase = "idle"
    /\ lastOp = Op("none", 0, 0, "", Label_new)
    /\ AsmIdle

NextBuild ==
    \/ KAFlood
    \/ KARecurse
    \/ KAReturn
    \/ KAGuard
    \/ KAUnmark
    \/ KeepAliveSetsReturn
    \/ BuilderWalk
    \/ BFlood
    \/ BSpill
    \/ BNode
    \/ BGuard
    \/ BRecurse
    \/ BFinish
    \/ BReturn
    \/ BSwitch
    \/ BuildReturn

SpecBuild == InitBuild /\ [][NextBuild]_vars

-----------------------------------------------------------------------------
(* Claims about the keep-alive analysis. *)

\* C2: the marks when KeepAlive::walk returns are the marks when it was
\* entered, at every depth of the recursion (coldness >= 2).
C2_WalkRestoresMarks ==
    (phase = "ka" /\ KATop.pc = "exit") =>
        /\ KATop.coldness >= 2
        /\ marks = KATop.entry_marks

\* C2 witness: a cold walk, entered with nodes of a hotter level marked, is
\* about to return after flooding nodes of its own and walking a cold child.
C2_Witness ==
    /\ phase = "ka"
    /\ Len(kaStack) = 2
    /\ KATop.pc = "exit"
    /\ Len(KATop.nodes) >= 2
    /\ KATop.children # <<>>
    /\ \E n \in Nodes(dataflow) : marks[n] = 2

\* C3: on entry to and on exit from KeepAlive::walk the entry node has mark
\* 1, exactly the other nodes on the hot paths of the enclosing walks have a
\* mark, which lies in 1..coldness-1, and every other node has mark 0.
C3_MarkDiscipline ==
    (phase = "ka" /\ KATop.pc \in {"entry", "exit"}) =>
        \A n \in Nodes(dataflow) :
            IF n = entry_node THEN marks[n] = 1
            ELSE IF n \in AncestorHot
                 THEN marks[n] >= 1 /\ marks[n] < KATop.coldness
                 ELSE marks[n] = 0

\* C3 witness: a walk two cold branches deep is entered while its parent
\* and its grandparent each have nodes marked.
C3_Witness ==
    /\ phase = "ka"
    /\ Len(kaStack) = 3
    /\ KATop.pc = "entry"
    /\ KATop.coldness = 4
    /\ \E n, m \in Nodes(dataflow) : marks[n] = 2 /\ marks[m] = 3

\* C4: once keep_alive_sets has returned, every Out read on a path of a cold
\* child of a guard is in the keep_alives of that guard or is defined by a
\* node computed on a path of that cold child.
C4_KeepAliveClosure ==
    phase = "tree" =>
        \A fact \in AllGuardFacts : \A c \in fact.colds :
            LET sub == SubtreeNodes(c, fact.hotter)
            IN  \A out \in ReadBy(dataflow, sub) :
                    \/ out \in GuardFailureOf(fact).keep_alives
                    \/ Definer(out) \in sub

\* C4 witness: a guard whose cold child has a cold child of its own, which
\* reads an Out defined on a hotter path than the guard's cold child.
C4_Witness ==
    /\ phase = "tree"
    /\ \E fact \in AllGuardFacts : \E c \in fact.colds : \E d \in ColdChildren(c) :
          LET H == HotNodes(c, fact.hotter)
          IN  \E out \in ReadBy(dataflow, SubtreeNodes(d, fact.hotter \cup H)) :
                 /\ Definer(out) \in fact.hotter
                 /\ out \notin ReadBy(dataflow, H)
                 /\ out \in GuardFailureOf(fact).keep_alives

\* C5: when KeepAlive::walk has dealt with the cold children of a guard, all
\* the Outs they returned are in the keep_alives of the GuardFailure, and an
\* Out among them has been added to the inputs of this level exactly if its
\* definer has a mark below coldness; so no Out among the inputs a walk
\* returns is defined at the level of that walk.
C5_PropagateHotter ==
    /\ (phase = "ka" /\ log.op = "guard") =>
          LET top == KATop
              gf  == top.children[Len(top.children)]
          IN  /\ gf.keep_alives = log.keep_alives
              /\ log.before \subseteq top.inputs
              /\ top.inputs \ log.before \subseteq log.keep_alives
              /\ \A out \in log.keep_alives \ log.before :
                    out \in top.inputs <=> marks[Definer(out)] < top.coldness
    /\ (phase = "ka" /\ KATop.pc = "exit") =>
          \A out \in KATop.inputs :
              /\ marks[Definer(out)] # 0
              /\ marks[Definer(out)] < KATop.coldness

\* C5 witness: the cold children of a guard returned an Out defined at the
\* current level, which is not propagated, and an Out defined at a hotter
\* level, which is.
C5_Witness ==
    /\ phase = "ka"
    /\ log.op = "guard"
    /\ \E o1, o2 \in log.keep_alives :
          /\ marks[Definer(o1)] = KATop.coldness
          /\ o1 \notin KATop.inputs
          /\ marks[Definer(o2)] < KATop.coldness
          /\ o2 \notin log.before
          /\ o2 \in KATop.inputs

\* The result of keep_alive_sets that tests::binary_tree expects.
BinaryTreeExpected ==
    LET gf(guard, colds, kas) ==
            [cold |-> [guard |-> guard, hot_index |-> 0, colds |-> colds],
             keep_alives |-> kas]
        c == <<0, 2>>
        q == <<0, 4>>
        r == <<0, 5>>
        s == <<0, 6>>
    IN  (7 :> HotPathTree_new(4, <<gf(1, <<6>>, {c, r, s}), gf(2, <<2>>, {q})>>))
        @@ (6 :> HotPathTree_new(6, <<gf(3, <<4>>, {s})>>))
        @@ (4 :> HotPathTree_new(7, <<>>))
        @@ (2 :> HotPathTree_new(5, <<>>))

\* C6: once keep_alive_sets has returned, the keep_alives of every guard are
\* exactly the Outs that are read on some path of a cold child of the guard
\* and defined on the path of the guard or a hotter one; and on the
\* binary-tree example the result is the expected tree.
C6_KeepAlivesExact ==
    phase = "tree" =>
        /\ \A fact \in AllGuardFacts :
              GuardFailureOf(fact).keep_alives =
                  {out \in UNION {ReadBy(dataflow, SubtreeNodes(c, fact.hotter)) :
                                    c \in fact.colds} :
                      Definer(out) \in fact.hotter}
        /\ dataflow = BinaryTreeDataflow => trees = BinaryTreeExpected

\* C6 witness: keep_alive_sets has returned on the binary-tree example.
C6_Witness ==
    /\ phase = "tree"
    /\ dataflow = BinaryTreeDataflow
    /\ cft = BinaryTreeCFT
    /\ trees[7].children[1].keep_alives = {<<0, 2>>, <<0, 5>>, <<0, 6>>}

-----------------------------------------------------------------------------
(* Claims about the builder. *)

\* C1 as stated: whenever a call of Builder::walk is about to return, the
\* marks are those of Builder::new: 1 for the entry node, 0 for the others.
C1_MarksAsNewAfterEveryWalk ==
    (phase = "builder" /\ BTop.pc = "exit") => marks = Builder_new(dataflow)

\* C1 as amended: whenever a call of Builder::walk is about to return, the
\* marks are those on entry to that call; for the call made by build these
\* are the marks of Builder::new, and they remain so after build.
C1_WalkRestoresMarks ==
    /\ (phase = "builder" /\ BTop.pc = "exit") =>
          /\ marks = BTop.entry_marks
          /\ Len(bStack) = 1 =>
                \A n \in Nodes(dataflow) :
                    marks[n] = IF n = entry_node THEN 1 ELSE 0
    /\ phase = "done" =>
          \A n \in Nodes(dataflow) : marks[n] = IF n = entry_node THEN 1 ELSE 0

\* C1 witness: the walk of a cold child is about to return, having flooded
\* nodes of its own, while nodes scheduled before the guard are still marked.
C1_Witness ==
    /\ phase = "builder"
    /\ Len(bStack) = 2
    /\ BTop.pc = "exit"
    /\ Len(BTop.nodes) >= 2
    /\ \E n \in Nodes(dataflow) : n # entry_node /\ marks[n] = 2

C29_KeepAliveAssertionsHold ==
    /\ (phase = "panic" /\ kaStack # <<>>) => log.op \notin {"assert_ne", "assert_eq"}
    /\ (phase = "ka" /\ kaStack # <<>> /\ KATop.pc = "loop") =>
          IF KATop.gi <= Len(KATop.colds)
          THEN KATop.ci > Len(KATop.colds[KATop.gi].colds) =>
                  \A out \in KATop.keep_alives : marks[Definer(out)] \in 1 .. KATop.coldness
          ELSE \A i \in DOMAIN KATop.nodes : marks[KATop.nodes[i]] = KATop.coldness

\* C29 witness: in a walk of coldness 3 the cold child of a guard has
\* returned inputs, one of them the result of an arithmetic node of the
\* hot path, and the assertions on them have passed; the walks of all
\* cold children inside have unmarked their nodes before.
C29_Witness ==
    /\ phase = "ka"
    /\ log.op = "guard"
    /\ log.coldness = 3
    /\ \E out \in log.keep_alives : Definer(out) # entry_node

\* The nodes reached from exit along data and effect edges through
\* unmarked nodes only.
RECURSIVE UnmarkedReach(_, _, _)
UnmarkedReach(df, mks, S) ==
    LET next == S \cup {m \in UNION {Preds(df, n) : n \in S} : mks[m] = 0}
    IN  IF next = S THEN S ELSE UnmarkedReach(df, mks, next)

\* What flood(df, mks, coldness, inputs, effects, exit) is to leave behind,
\* and what it is to return, stated without a traversal.
FloodContract(df, mks, coldness, inputs, exit, nodes, marks_after, inputs_after) ==
    LET R == UnmarkedReach(df, mks, {exit})
    IN  /\ Range(nodes) = R
        /\ \A i, j \in DOMAIN nodes :
               /\ nodes[i] = nodes[j] => i = j
               /\ nodes[i] \in Preds(df, nodes[j]) => i < j
        /\ marks_after = [n \in DOMAIN mks |-> IF n \in R THEN coldness ELSE mks[n]]
        /\ marks_after[entry_node] = 1
        /\ inputs_after = inputs \cup
               {out \in ReadBy(df, R) :
                   mks[Definer(out)] # 0 /\ mks[Definer(out)] < coldness}

\* The effect predecessors of the nodes of R that a hotter path has marked.
HotterEffects(df, mks, coldness, R) ==
    {d \in UNION {Range(df.deps[n]) : n \in R} : mks[d] # 0 /\ mks[d] < coldness}

\* C24: flood returns the unmarked nodes reachable from exit through
\* unmarked nodes, each once and after the nodes it depends on; it marks
\* them with coldness and no others, the entry node keeps the mark 1; the
\* Outs read from nodes of hotter paths are added to inputs and the effect
\* predecessors on hotter paths to effects.  (Builder::walk clears the
\* mark of exit right after flood.)
C24_FloodContract ==
    [][log'.op = "flood" =>
        IF phase = "ka"
        THEN FloodContract(dataflow, marks, KATop'.coldness, KATop.inputs,
                           KATop'.exit, KATop'.nodes, marks', KATop'.inputs)
        ELSE LET exit == trees[BTop'.tree].exit
             IN  /\ FloodContract(dataflow, marks, BTop'.coldness, {}, exit,
                                  BTop'.nodes, [marks' EXCEPT ![exit] = BTop'.coldness],
                                  BTop'.inputs)
                 /\ marks'[exit] = 0
                 /\ BTop'.effects = HotterEffects(dataflow, marks, BTop'.coldness,
                                                  Range(BTop'.nodes))]_vars

\* C24 witness: in a Builder::walk of coldness 3 flood has returned more
\* than one node, and has found both Outs and effect predecessors on
\* the hotter path, among them the result of an arithmetic node.
C24_Witness ==
    /\ phase = "builder"
    /\ log.op = "flood"
    /\ BTop.coldness = 3
    /\ Len(BTop.nodes) >= 2
    /\ BTop.effects # {}
    /\ \E out \in BTop.inputs : Definer(out) # entry_node

-----------------------------------------------------------------------------
(* Claims about the schedule, the allocation and the EBBs of the builder. *)

\* The positions in the instructions at which node n is.
PositionsOf(instructions, n) ==
    {i \in DOMAIN instructions :
        instructions[i].kind = "Node" /\ instructions[i].node = n}

\* C23: in the instructions that a walk gets from allocate, each node that
\* flood returned appears exactly once, no other node appears, and every
\* node comes after those of its data and effect predecessors that flood
\* returned.
C23_ScheduleRespectsEdges ==
    (phase = "builder" /\ log.op = "flood") =>
        LET f == BTop
            segment == Range(f.nodes)
        IN  /\ \A n \in segment :
                  Cardinality(PositionsOf(f.instructions, n)) = 1
            /\ \A i \in DOMAIN f.instructions :
                  f.instructions[i].kind = "Node" =>
                      f.instructions[i].node \in segment
            /\ \A n \in segment : \A m \in Preds(dataflow, n) \cap segment :
                  \A i \in PositionsOf(f.instructions, n) :
                      \A j \in PositionsOf(f.instructions, m) : j < i

\* C23 witness: flood has returned four nodes or more, the instructions
\* hold a Spill, and a node of the segment has an effect predecessor and a
\* data predecessor in the segment.
C23_Witness ==
    /\ phase = "builder"
    /\ log.op = "flood"
    /\ Len(BTop.nodes) >= 4
    /\ \E i \in DOMAIN BTop.instructions : BTop.instructions[i].kind = "Spill"
    /\ \E n \in Range(BTop.nodes) :
          /\ dataflow.deps[n] # <<>>
          /\ Range(dataflow.deps[n]) \subseteq Range(BTop.nodes)
          /\ \E o \in Range(dataflow.ins[n]) : Definer(o) \in Range(BTop.nodes)

\* The Outs that the allocation of the activation f keeps in a register:
\* the inputs that are in one and the Outs of the scheduled nodes.
RegisterOuts(f) ==
    {out \in DOMAIN f.cg.input_variables :
        f.cg.input_variables[out].kind = "Register"}
      \cup DOMAIN f.cg.allocation

RegisterOf(f, out) ==
    IF out \in DOMAIN f.cg.allocation THEN f.cg.allocation[out]
    ELSE f.cg.input_variables[out].index

\* Program point p is after the p-th instruction, point 0 the entry of the
\* segment.  An Out exists from the point after its node, an input from 0.
DefinedAt(f, out) ==
    IF out \in DOMAIN f.cg.allocation
    THEN CHOOSE i \in PositionsOf(f.instructions, Definer(out)) : TRUE
    ELSE 0

\* The instructions that need out: the nodes that read it, and the guards
\* after its definition whose GuardFailure keeps it alive.
NeededBy(f, out) ==
    {i \in DOMAIN f.instructions :
        /\ f.instructions[i].kind = "Node"
        /\ i > DefinedAt(f, out)
        /\ LET n == f.instructions[i].node
               children == trees[f.tree].children
           IN  \/ out \in Range(dataflow.ins[n])
               \/ n \in DOMAIN children /\ out \in children[n].keep_alives}

\* out is live in its register at point p: it is defined, an instruction
\* after p needs it, and no Spill up to p has moved it to a slot.  At the
\* point of its definition it is in its register in any case.
LiveInRegister(f, out, p) ==
    /\ DefinedAt(f, out) <= p
    /\ \/ p = DefinedAt(f, out)
       \/ \E i \in NeededBy(f, out) : p < i
    /\ \A i \in 1 .. p :
          f.instructions[i].kind = "Spill" =>
              out \notin {f.instructions[i].out1, f.instructions[i].out2}

SpillPositions(instructions) ==
    {i \in DOMAIN instructions : instructions[i].kind = "Spill"}

SpillsBefore(instructions, i) ==
    Cardinality({j \in SpillPositions(instructions) : j < i})

\* C25: when Builder::walk has assigned the spill slots, with s the
\* slots_used it was called with, the k-th Spill (from 0) has out1 in
\* Slot(s + 2k) and out2 in Slot(s + 2k + 1), slots_used is s plus twice
\* the number of Spills, no spilled Out is in a slot below s, and every
\* other Out of a scheduled node is in its allocated register.
C25_SpillSlotsInPairs ==
    [][(log'.op = "flood" /\ phase' = "builder") =>
          LET f == BTop'
              s == f.slots_used
              spills == SpillPositions(f.instructions)
              spilled == UNION {{f.instructions[i].out1, f.instructions[i].out2} :
                                  i \in spills}
          IN  /\ \A i \in spills :
                    LET k == SpillsBefore(f.instructions, i)
                    IN  /\ f.cg.variables[f.instructions[i].out1] = Slot(s + 2 * k)
                        /\ f.cg.variables[f.instructions[i].out2] = Slot(s + 2 * k + 1)
              /\ f.cg.slots_used = s + 2 * Cardinality(spills)
              /\ f.cg.slots_used % 2 = s % 2
              /\ \A out \in spilled :
                    f.cg.variables[out].kind = "Slot" /\ f.cg.variables[out].index >= s
              /\ \A n \in Range(f.nodes) : \A out \in OutsOf(dataflow, n) :
                    out \notin spilled =>
                        f.cg.variables[out] = Register(f.cg.allocation[out])]_vars

\* C25 witness: a walk entered with one slot in use has scheduled two
\* Spills, and an Out of a scheduled node is in a register.
C25_Witness ==
    /\ phase = "builder"
    /\ log.op = "flood"
    /\ BTop.slots_used = 1
    /\ Cardinality(SpillPositions(BTop.instructions)) = 2
    /\ BTop.cg.slots_used = 5
    /\ \E i \in SpillPositions(BTop.instructions) :
          BTop.cg.variables[BTop.instructions[i].out2] = Slot(4)
    /\ \E out \in DOMAIN BTop.cg.allocation : BTop.cg.variables[out].kind = "Register"

\* The positions of the guards among the instructions of the activation f.
GuardPositions(f) ==
    {i \in DOMAIN f.instructions :
        f.instructions[i].kind = "Node" /\ is_guard(dataflow, f.instructions[i].node)}

\* The first guard after position a, or the end of the instructions.
NextGuard(f, a) ==
    LET later == {i \in GuardPositions(f) : i > a}
    IN  IF later = {} THEN Len(f.instructions) + 1 ELSE MinOf(later)

\* The nodes strictly between positions a and b that are not guards and
\* whose cost is not zero, in the order of the schedule.
RECURSIVE CostlyNodes(_, _, _)
CostlyNodes(f, a, b) ==
    IF a + 1 >= b THEN <<>>
    ELSE LET instruction == f.instructions[a + 1]
         IN  (IF /\ instruction.kind = "Node"
                 /\ ~is_guard(dataflow, instruction.node)
                 /\ cost(dataflow, instruction.node).resources # 0
              THEN <<instruction.node>> ELSE <<>>)
               \o CostlyNodes(f, a + 1, b)

\* C27: the Actions of an EBB are those of the scheduled nodes, from the
\* guard that starts it (or the start of the segment) to the next guard (or
\* the end), that are not guards and have a non-zero cost, in the order of
\* the schedule.
C27_ActionsAreCostlyNodes ==
    [][/\ (log'.op = "guard" /\ phase' = "builder") =>
             BTop'.hot.actions =
                 CostlyNodes(BTop', BTop'.idx, NextGuard(BTop', BTop'.idx))
       /\ (log'.op = "finish" /\ phase' = "builder") =>
             BTop'.ebb.actions = CostlyNodes(BTop', 0, NextGuard(BTop', 0))]_vars

\* C27 witness: Builder::walk has finished an EBB of two Actions or more,
\* in order other than that of the node numbers, from a segment with a
\* guard, a Spill and a node of cost zero.
C27_Witness ==
    /\ phase = "builder"
    /\ log.op = "finish"
    /\ Len(BTop.ebb.actions) >= 2
    /\ BTop.ebb.actions[1] > BTop.ebb.actions[2]
    /\ GuardPositions(BTop) # {}
    /\ SpillPositions(BTop.instructions) # {}
    /\ \E n \in Range(BTop.nodes) :
          ~is_guard(dataflow, n) /\ cost(dataflow, n).resources = 0

\* The Variable of out after the first p instructions of the activation f:
\* the slot a Spill among them has put it in, else its allocated register,
\* else the Variable it is in on entry.
VariableAt(f, out, p) ==
    LET spills == {i \in SpillPositions(f.instructions) :
                     i <= p /\ out \in {f.instructions[i].out1, f.instructions[i].out2}}
    IN  IF spills # {}
        THEN LET i == MaxOf(spills)
                 k == SpillsBefore(f.instructions, i)
             IN  IF out = f.instructions[i].out2
                 THEN Slot(f.slots_used + 2 * k + 1)
                 ELSE Slot(f.slots_used + 2 * k)
        ELSE IF out \in DOMAIN f.cg.allocation
        THEN Register(f.cg.allocation[out])
        ELSE Lookup(f.cg.input_variables, out)

\* C26: at a guard of the reverse pass the EBB of the current ending is the
\* hot case; each cold child of its GuardFailure is walked with coldness + 1
\* and the slots in use at the guard; the cases and the default of the new
\* ending are the EBBs of the cold children in their order with the hot EBB
\* at hot_index, and its discriminant is the Variable of the one input of
\* the guard; a guard with another number of inputs fails the assertion.
C26_GuardBecomesSwitch ==
    [][/\ (log'.op = "guard" /\ phase' = "builder") =>
             BTop'.hot.ending = BTop.ending
       /\ (log'.op = "call" /\ phase = "builder") =>
             LET parent == BTop
                 gf == trees[parent.tree].children[parent.instructions[parent.idx].node]
             IN  /\ Len(bStack') = Len(bStack) + 1
                 /\ BTop'.tree = gf.cold.colds[Len(parent.cold_ebbs) + 1]
                 /\ BTop'.coldness = parent.coldness + 1
                 /\ BTop'.slots_used =
                        parent.slots_used
                          + 2 * SpillsBefore(parent.instructions, parent.idx)
       /\ (log'.op \in {"switch", "assert_eq"} /\ phase = "builder") =>
             LET f == BTop
                 guard == f.instructions[f.idx].node
                 gf == trees[f.tree].children[guard]
                 ending == BTop'.ending
                 all == Append(ending.cases, ending.default_)
             IN  IF Len(dataflow.ins[guard]) = 1
                 THEN /\ log'.op = "switch"
                      /\ ending.kind = "Switch"
                      /\ ending.discriminant =
                             VariableAt(f, dataflow.ins[guard][1], f.idx)
                      /\ Len(all) = Len(gf.cold.colds) + 1
                      /\ all[gf.cold.hot_index + 1] = f.hot
                      /\ RemoveAt(all, gf.cold.hot_index) =
                             [j \in DOMAIN gf.cold.colds |-> ebbs[gf.cold.colds[j]]]
                 ELSE log'.op = "assert_eq" /\ phase' = "panic"]_vars

\* C26 witness: a Switch of three cases has been built with the hot EBB as
\* the middle one and a register as the discriminant.
C26_Witness ==
    /\ phase = "builder"
    /\ log.op = "switch"
    /\ BTop.ending.kind = "Switch"
    /\ Len(BTop.ending.cases) = 2
    /\ BTop.ending.cases[2] = BTop.hot
    /\ BTop.ending.discriminant.kind = "Register"

\* C26 witnesses: a cold child is walked at coldness 4 with three slots in
\* use; a guard is switched on a slot; a guard of two inputs has failed
\* the assertion.
C26_WitnessDeep ==
    /\ phase = "builder"
    /\ log.op = "call"
    /\ BTop.coldness = 4
    /\ BTop.slots_used = 3

C26_WitnessSlot ==
    /\ phase = "builder"
    /\ log.op = "switch"
    /\ BTop.ending.discriminant.kind = "Slot"

C26_WitnessAssert ==
    /\ phase = "panic"
    /\ log.op = "assert_eq"
    /\ bStack # <<>>

-----------------------------------------------------------------------------
(* Claims about Labels and the Lowerer. *)

\* The target of the jump or call assembled at p, decoded from its bytes:
\* the address after the instruction plus the displacement.
JumpTarget(buf, p) ==
    LET d == ReadI32(buf, p + 2)
    IN  IF d = UNKNOWN_DISP THEN None ELSE Some(p + 6 + d)

\* The six bytes of the jump or call assembled at p.
InstrBytes(buf, p) == [k \in 1 .. 6 |-> read_byte(buf, p + k - 1)]

\* C8: define(label) on a label without target sets its target to the
\* current assembly address and writes that address into every pending
\* patch of the label; on a label with a target the assertion fails and
\* neither the labels nor the buffer change.
C8_DefineContract ==
    [][lastOp'.op = "define" =>
        LET i == lastOp'.label
        IN  IF ~is_defined(labels[i])
            THEN /\ lphase' = "run"
                 /\ labels'[i].target = Some(pos)
                 /\ pos' = pos
                 /\ \A p \in Range(labels[i].patches) :
                        /\ JumpTarget(buffer', p) = Some(pos)
                        /\ p \in Range(labels'[i].patches)
            ELSE /\ lphase' = "panic"
                 /\ labels' = labels
                 /\ buffer' = buffer
                 /\ pos' = pos]_vars

\* C8 witness: define has just given a target to a label with two pending
\* patches, which lie before the target and now jump to it.
C8_Witness ==
    /\ lastOp.op = "define"
    /\ lphase = "run"
    /\ LET label == labels[lastOp.label]
       IN  /\ Len(label.patches) = 2
           /\ label.target = Some(pos)
           /\ \A p \in Range(label.patches) :
                  p < pos /\ JumpTarget(buffer, p) = label.target

\* C9: patch(label) succeeds on any label, however often it was patched or
\* defined before: the target of label becomes the current assembly address,
\* every instruction of its patch list jumps there and stays in the list,
\* and the Label returned has the previous target and no patches.
C9_PatchRepeatable ==
    [][lastOp'.op = "patch" =>
        LET i == lastOp'.label
            before == labels[i]
        IN  /\ lphase' = "run"
            /\ labels'[i].target = Some(pos)
            /\ Range(labels'[i].patches) = Range(before.patches)
            /\ Len(labels'[i].patches) = Len(before.patches)
            /\ \A p \in Range(before.patches) :
                   /\ JumpTarget(buffer', p) = Some(pos)
                   /\ SubSeq(InstrBytes(buffer', p), 1, 2)
                        = SubSeq(InstrBytes(buffer, p), 1, 2)
            /\ lastOp'.result = [target |-> before.target, patches |-> <<>>]]_vars

\* C9 witness: a label that had a target and a patch has been patched again
\* at a later address; the Label returned has the earlier target.
C9_Witness ==
    /\ lastOp.op = "patch"
    /\ lphase = "run"
    /\ LET label == labels[lastOp.label]
       IN  /\ label.patches # <<>>
           /\ label.target = Some(pos)
           /\ lastOp.result.target.some
           /\ lastOp.result.target.v < pos
           /\ lastOp.result.patches = <<>>
           /\ \A p \in Range(label.patches) : JumpTarget(buffer, p) = Some(pos)

\* C10: steal(winner, loser) makes every instruction of loser's patch list
\* jump to winner's target and moves it to winner's patch list; loser's
\* patch list is then empty; the instructions that were in winner's list
\* stay there with their bytes unchanged; the targets of both stay.
C10_StealRepoints ==
    [][lastOp'.op = "steal" =>
        LET winner == labels[lastOp'.label]
            loser  == labels[lastOp'.other]
            winner_after == labels'[lastOp'.label]
            loser_after  == labels'[lastOp'.other]
        IN  /\ lphase' = "run"
            /\ \A p \in Range(loser.patches) :
                   /\ JumpTarget(buffer, p) = loser.target
                   /\ JumpTarget(buffer', p) = winner.target
                   /\ p \in Range(winner_after.patches)
            /\ loser_after.patches = <<>>
            /\ \A p \in Range(winner.patches) :
                   /\ InstrBytes(buffer', p) = InstrBytes(buffer, p)
                   /\ p \in Range(winner_after.patches)
            /\ Range(winner_after.patches)
                 = Range(winner.patches) \cup Range(loser.patches)
            /\ winner_after.target = winner.target
            /\ loser_after.target = loser.target]_vars

\* C10 witness: steal has moved a patch of loser to a winner that had a
\* patch of its own and another target; both instructions jump to winner's
\* target.
C10_Witness ==
    /\ lastOp.op = "steal"
    /\ lphase = "run"
    /\ LET winner == labels[lastOp.label]
           loser  == labels[lastOp.other]
       IN  /\ lastOp.result.patches # <<>>
           /\ Len(winner.patches) > Len(lastOp.result.patches)
           /\ winner.target.some
           /\ lastOp.result.target # winner.target
           /\ loser.patches = <<>>
           /\ \A p \in Range(winner.patches) :
                  JumpTarget(buffer, p) = winner.target

\* The addresses of the jumps and calls assembled in buf from address p on:
\* the instructions of the model are six bytes (jump_if, const_jump,
\* const_call) or two bytes (ret) long.
RECURSIVE JumpsFrom(_, _)
JumpsFrom(buf, p) ==
    IF p >= Len(buf) THEN {}
    ELSE IF IsPatchable(buf, p) THEN {p} \cup JumpsFrom(buf, p + 6)
    ELSE JumpsFrom(buf, p + 2)

\* The pairs <<i, k>> such that labels[i].patches[k] = p.
Owners(p) ==
    {ik \in {<<i, k>> : i \in DOMAIN labels, k \in 1 .. MaxPos} :
        /\ ik[2] \in DOMAIN labels[ik[1]].patches
        /\ labels[ik[1]].patches[ik[2]] = p}

\* C11: every jump or call assembled against a Label is in the patch list
\* of exactly one Label, once; and the patch lists hold nothing else.
C11_PatchOwnedOnce ==
    /\ \A p \in JumpsFrom(buffer, 0) : Cardinality(Owners(p)) = 1
    /\ \A i \in DOMAIN labels :
          Range(labels[i].patches) \subseteq JumpsFrom(buffer, 0)

\* C11 witness: two jumps have been assembled against different Labels and
\* steal has moved one of them to the list that holds the other.
C11_Witness ==
    /\ lastOp.op = "steal"
    /\ lphase = "run"
    /\ lastOp.result.patches # <<>>
    /\ Cardinality(JumpsFrom(buffer, 0)) = 2
    /\ Len(labels[lastOp.label].patches) = 2
    /\ labels[lastOp.other].patches = <<>>

\* C28: for every Label and every Patch of its patch list, the displacement
\* in the buffer at the Patch is that of the Label's target (the placeholder
\* -0x80000000 for a Label without target), so that Assembler::patch finds
\* the old displacement it asserts: no jump, patch or steal panics, and
\* define panics only on a Label that has a target.
C28_LabelBufferConsistent ==
    /\ \A i \in DOMAIN labels : \A p \in Range(labels[i].patches) :
          /\ IsPatchable(buffer, p)
          /\ ReadI32(buffer, p + 2) = optional_disp32(p + 6, labels[i].target).v
          /\ JumpTarget(buffer, p) = labels[i].target
    /\ lphase = "panic" =>
          /\ lastOp.op = "define"
          /\ is_defined(labels[lastOp.label])

\* C28 witness: patch has given a second target to a Label that owns a
\* jump assembled before the first one, and that jump holds the displacement
\* to the new target, while a Label without target owns a jump that holds
\* the placeholder.
C28_Witness ==
    /\ lphase = "run"
    /\ lastOp.op = "patch"
    /\ lastOp.result.target.some
    /\ \E i, j \in DOMAIN labels :
          /\ i = lastOp.label
          /\ labels[i].target = Some(pos)
          /\ Len(labels[i].patches) = 1
          /\ \A p \in Range(labels[i].patches) :
                 JumpTarget(buffer, p) = Some(pos)
          /\ ~is_defined(labels[j])
          /\ Len(labels[j].patches) = 1
          /\ \A p \in Range(labels[j].patches) :
                 ReadI32(buffer, p + 2) = UNKNOWN_DISP

-----------------------------------------------------------------------------
(* The Assembler driven directly (x86_64/assembler.rs): jumps and calls    *)
(* to targets the caller chooses, and patch with any arguments.            *)

\* const LABEL: usize = 0x02461357, the target of the tests
LABEL == 38146903

\* The targets the caller passes.
AsmTargets == {None, Some(0), Some(LABEL)}

\* A call of an Assembler method: the address of the instruction, the
\* targets passed, whether it returned, and for patch the buffer before it.
AsmOp(name, kind, patch, old, new, ok, before) ==
    [op |-> name, kind |-> kind, patch |-> patch, old |-> old, new |-> new,
     ok |-> ok, before |-> before]

BuildIdle ==
    /\ dataflow = MkDataflow(0, <<>>, <<>>, <<>>, <<>>)
    /\ cft = [root |-> 0, t |-> <<>>]
    /\ caller = "none"
    /\ phase = "idle"
    /\ marks = <<>>
    /\ kaStack = <<>>
    /\ trees = <<>>
    /\ log = "none"
    /\ bStack = <<>>
    /\ ebbs = <<>>

\* No Label is held; the Assembler is not behind a Lowerer.
LabelIdle ==
    /\ labels = <<>>
    /\ lphase = "idle"
    /\ lastOp = Op("none", 0, 0, "", Label_new)

\* Assembler::jump_if, const_jump, const_call with a target of the caller.
AJump(kind, target) ==
    /\ aphase = "run"
    /\ owner = "caller"
    /\ pos + 6 <= MaxPos
    /\ LET r == AsmJump(buffer, pos, kind, target)
       IN  /\ buffer' = r.buffer
           /\ pos' = r.pos
           /\ aphase' = IF r.ok THEN "run" ELSE "panic"
           /\ targets' = IF r.ok THEN (r.patch :> target) @@ targets
                         ELSE (r.patch :> None) @@ targets
           /\ lastAsm' = AsmOp("jump", kind.name, r.patch, None, target, r.ok, <<>>)
    /\ prevAsm' = lastAsm
    /\ UNCHANGED <<perm, owner, outcome, fcall, fresult>>

\* Assembler::ret
ARet ==
    /\ aphase = "run"
    /\ owner = "caller"
    /\ pos + 2 <= MaxPos
    /\ buffer' = BufWrite(buffer, pos, LEBytes(49984, 2))
    /\ pos' = pos + 2
    /\ lastAsm' = AsmOp("ret", "", pos, None, None, TRUE, <<>>)
    /\ prevAsm' = lastAsm
    /\ UNCHANGED <<targets, aphase, perm, owner, outcome, fcall, fresult>>

\* Assembler::patch(patch, old_target, new_target) at the address of an
\* instruction assembled before, with any targets.
APatch(p, old, new) ==
    /\ aphase = "run"
    /\ owner = "caller"
    /\ LET r == AsmPatch(buffer, p, old, new)
       IN  /\ buffer' = r.buffer
           /\ aphase' = IF r.ok THEN "run" ELSE "panic"
           /\ targets' = IF r.ok /\ p \in DOMAIN targets
                         THEN [targets EXCEPT ![p] = new] ELSE targets
           /\ lastAsm' = AsmOp("patch", "", p, old, new, r.ok, buffer)
    /\ prevAsm' = lastAsm
    /\ UNCHANGED <<pos, perm, owner, outcome, fcall, fresult>>

\* Assembler::new
InitAsm ==
    /\ buffer = <<>>
    /\ pos = 0
    /\ LabelIdle
    /\ BuildIdle
    /\ targets = <<>>
    /\ aphase = "run"
    /\ lastAsm = [op |-> "none"]
    /\ prevAsm = [op |-> "none"]
    /\ perm = "writable"
    /\ owner = "caller"
    /\ outcome = [kind |-> "none"]
    /\ fcall = [f |-> "none"]
    /\ fresult = [kind |-> "none"]

\* The addresses at which patch is tried: those of the jumps, calls and
\* rets assembled, and those of the displacement fields.
PatchAddresses == {q \in 0 .. (MaxPos - 2) : q < pos /\ q % 2 = 0}

NextAsm ==
    \/ \E kind \in JumpKinds, target \in AsmTargets :
          AJump(kind, target) /\ UNCHANGED <<buildVars, labels, lphase, lastOp>>
    \/ ARet /\ UNCHANGED <<buildVars, labels, lphase, lastOp>>
    \/ \E p \in PatchAddresses, old \in AsmTargets, new \in AsmTargets :
          APatch(p, old, new) /\ UNCHANGED <<buildVars, labels, lphase, lastOp>>

SpecAsm == InitAsm /\ [][NextAsm]_vars

-----------------------------------------------------------------------------
(* Claims about the Assembler's jumps and patch. *)

\* The displacement the field of the jump at p holds when it jumps to t:
\* from the end of the six bytes of the instruction.
ExpectedDisp(p, t) == IF t.some THEN t.v - (p + 6) ELSE UNKNOWN_DISP

\* C12: a jump or call assembled at address p returns the Patch p, and the
\* four bytes at p + 2 always encode its most recent target relative to
\* p + 6: the target it was assembled with or the one the last successful
\* patch gave it, and -0x80000000 if that target is None.
C12_DisplacementOfLatestTarget ==
    /\ \A p \in DOMAIN targets :
          /\ IsPatchable(buffer, p)
          /\ ReadI32(buffer, p + 2) = ExpectedDisp(p, targets[p])
    /\ lastAsm.op = "jump" =>
          /\ lastAsm.patch = pos - 6
          /\ lastAsm.patch \in DOMAIN targets
          /\ targets[lastAsm.patch] = lastAsm.new

\* C12 witness: const_jump(None) at address 0, then patch(0, None,
\* Some(0x02461357)): the field holds 0x02461351, least significant byte
\* first.
C12_Witness ==
    /\ prevAsm.op = "jump"
    /\ prevAsm.kind = "const_jump"
    /\ prevAsm.patch = 0
    /\ prevAsm.new = None
    /\ lastAsm.op = "patch"
    /\ lastAsm.ok
    /\ lastAsm.patch = 0
    /\ lastAsm.new = Some(LABEL)
    /\ SubSeq(buffer, 1, 6) = <<64, 233, 81, 19, 70, 2>>

\* C13: patch writes only after it has found the opcode of a jump or call
\* at the patch address and the displacement of old_target in its field:
\* it returns exactly when both hold, and when it panics the buffer and the
\* assembly address are as they were.
C13_PatchAssertsOldTarget ==
    [][lastAsm'.op = "patch" =>
        LET p == lastAsm'.patch
            jump == \/ buffer[p + 1] = 15 /\ buffer[p + 2] \in 128 .. 143
                    \/ buffer[p + 1] = 64 /\ buffer[p + 2] \in {232, 233}
            matches == ReadI32(buffer, p + 2) = ExpectedDisp(p, lastAsm'.old)
        IN  /\ lastAsm'.ok <=> (jump /\ matches)
            /\ lastAsm'.ok => ReadI32(buffer', p + 2) = ExpectedDisp(p, lastAsm'.new)
            /\ ~lastAsm'.ok => aphase' = "panic" /\ buffer' = buffer /\ pos' = pos]_vars

\* C13 witness: patch has panicked on a jump whose field held another
\* displacement than that of old_target, while new_target differed from
\* the target the jump has.
C13_Witness ==
    /\ lastAsm.op = "patch"
    /\ ~lastAsm.ok
    /\ aphase = "panic"
    /\ lastAsm.patch \in DOMAIN targets
    /\ targets[lastAsm.patch] # lastAsm.old
    /\ targets[lastAsm.patch] # lastAsm.new
    /\ buffer = lastAsm.before

\* C14: patch(p, a, b) followed by patch(p, b, a), on a jump or call at p
\* whose target is a, both return, and leave every byte of the buffer and
\* the assembly address as they were before the two calls.
C14_PatchRoundTrip ==
    /\ \A p \in DOMAIN targets : \A b \in AsmTargets :
          (lastAsm.op = "patch" /\ lastAsm.ok /\ lastAsm.patch = p
             /\ lastAsm.new = b /\ aphase = "run")
          => AsmPatch(buffer, p, b, lastAsm.old).ok
    /\ (/\ lastAsm.op = "patch" /\ lastAsm.ok
        /\ prevAsm.op = "patch" /\ prevAsm.ok
        /\ lastAsm.patch = prevAsm.patch
        /\ lastAsm.old = prevAsm.new
        /\ lastAsm.new = prevAsm.old)
       => buffer = prevAsm.before

\* C14 witness: a jump to 0x02461357 followed by another instruction has
\* been patched to None and back.
C14_Witness ==
    /\ lastAsm.op = "patch" /\ lastAsm.ok
    /\ prevAsm.op = "patch" /\ prevAsm.ok
    /\ lastAsm.patch = prevAsm.patch
    /\ lastAsm.patch + 6 < pos
    /\ prevAsm.old = Some(LABEL)
    /\ prevAsm.new = None
    /\ lastAsm.old = None
    /\ lastAsm.new = Some(LABEL)
    /\ buffer = prevAsm.before

-----------------------------------------------------------------------------
(* disp and disp32 as pure functions, on arguments around the limits of    *)
(* i32 and isize.                                                          *)

\* 0, 1, 6, 2^31 - 1, 2^31, 2^31 + 1, 2^32 + 5, 2^63 - 2^31 - 1, 2^63 - 1,
\* 2^63 and 2^64 - 1
WideSamples ==
    { <<0, 0, 0, 0>>, <<1, 0, 0, 0>>, <<6, 0, 0, 0>>,
      <<65535, 32767, 0, 0>>, <<0, 32768, 0, 0>>, <<1, 32768, 0, 0>>,
      <<5, 0, 1, 0>>, <<65535, 32767, 65535, 32767>>,
      <<65535, 65535, 65535, 32767>>, <<0, 0, 0, 32768>>,
      <<65535, 65535, 65535, 65535>> }

\* The caller is about to call disp or disp32.
InitDisp ==
    /\ buffer = <<>>
    /\ pos = 0
    /\ LabelIdle
    /\ BuildIdle
    /\ targets = <<>>
    /\ aphase = "idle"
    /\ lastAsm = [op |-> "none"]
    /\ prevAsm = [op |-> "none"]
    /\ perm = "writable"
    /\ owner = "caller"
    /\ outcome = [kind |-> "none"]
    /\ \E f \in {"disp", "disp32"}, from \in WideSamples, to \in WideSamples :
          fcall = [f |-> f, from |-> from, to |-> to]
    /\ fresult = [kind |-> "none"]

CallDisp ==
    /\ fcall.f = "disp"
    /\ fresult.kind = "none"
    /\ LET r == disp(fcall.from, fcall.to)
       IN  fresult' = [kind |-> "disp", ok |-> r.ok, v |-> r.v]
    /\ UNCHANGED <<buildVars, labelVars, targets, aphase, lastAsm, prevAsm,
                   perm, owner, outcome, fcall>>

CallDisp32 ==
    /\ fcall.f = "disp32"
    /\ fresult.kind = "none"
    /\ LET r == disp32(fcall.from, fcall.to)
       IN  fresult' = [kind |-> "disp32", ok |-> r.ok, v |-> r.v]
    /\ UNCHANGED <<buildVars, labelVars, targets, aphase, lastAsm, prevAsm,
                   perm, owner, outcome, fcall>>

NextDisp == CallDisp \/ CallDisp32

SpecDisp == InitDisp /\ [][NextDisp]_vars

\* a + b on four limbs, the carry out of the last limb dropped.
RECURSIVE WideAddFrom(_, _, _, _)
WideAddFrom(a, b, i, carry) ==
    IF i > 4 THEN <<>>
    ELSE LET t == a[i] + b[i] + carry
         IN  <<t % Limb>> \o WideAddFrom(a, b, i + 1, t \div Limb)

WideAdd(a, b) == WideAddFrom(a, b, 1, 0)

\* The magnitude of an i32.
MagnitudeOf(v) ==
    IF v >= 0 THEN Usize(v)
    ELSE IF v = UNKNOWN_DISP THEN <<0, 32768, 0, 0>>
    ELSE Usize(-v)

\* Both addresses are at most isize::MAX = 2^63 - 1.
Addressable(from, to) == from[4] < 32768 /\ to[4] < 32768

\* to - from lies in -2^31 .. 2^31 - 1.
FitsI32(from, to) ==
    IF WideGreater(from, to)
    THEN ~WideGreater(from, WideAdd(to, <<0, 32768, 0, 0>>))
    ELSE ~WideGreater(to, WideAdd(from, <<65535, 32767, 0, 0>>))

\* C15: disp panics when from or to exceeds isize::MAX and otherwise
\* returns to - from; disp32 panics also when to - from is outside the
\* range of i32 and otherwise returns that difference, not truncated.
C15_DispRangeChecked ==
    /\ fresult.kind = "disp" =>
          /\ fresult.ok <=> Addressable(fcall.from, fcall.to)
          /\ fresult.ok =>
                IF fresult.v.neg
                THEN /\ WideAdd(fcall.to, fresult.v.mag) = fcall.from
                     /\ fresult.v.mag # Usize(0)
                ELSE WideAdd(fcall.from, fresult.v.mag) = fcall.to
    /\ fresult.kind = "disp32" =>
          /\ fresult.ok <=> /\ Addressable(fcall.from, fcall.to)
                            /\ FitsI32(fcall.from, fcall.to)
          /\ fresult.ok =>
                IF fresult.v < 0
                THEN WideAdd(fcall.to, MagnitudeOf(fresult.v)) = fcall.from
                ELSE WideAdd(fcall.from, MagnitudeOf(fresult.v)) = fcall.to

\* C15 witness: disp32(1, 2^31 + 1) has panicked: the displacement 2^31 is
\* one more than i32::MAX, though both addresses are below isize::MAX.
C15_Witness ==
    /\ fresult.kind = "disp32"
    /\ ~fresult.ok
    /\ fcall.from = <<1, 0, 0, 0>>
    /\ fcall.to = <<1, 32768, 0, 0>>
    /\ disp(fcall.from, fcall.to).ok

-----------------------------------------------------------------------------
(* Assembler::patch on one jump or call of a buffer of any size.  Of the   *)
(* buffer the model keeps the displacement field of the instruction; the   *)
(* address after it, `at + 4`, is a usize.                                 *)

\* The addresses `at + 4`: 6, 2^31, 2^31 + 6, 2^32 + 5 and 2^63 - 1.
FarFroms ==
    { <<6, 0, 0, 0>>, <<0, 32768, 0, 0>>, <<6, 32768, 0, 0>>, <<5, 0, 1, 0>>,
      <<65535, 65535, 65535, 32767>> }

\* The targets the caller passes.
FarTargets == {None} \cup {Some(w) : w \in WideSamples}

\* What became of the last call: the displacement in the buffer, the target
\* it was written for, and the target in place before the call.
FarResult(kind, d, target, previous) ==
    [kind |-> kind, disp |-> d, target |-> target, previous |-> previous]

\* An Assembler whose assembly address is `at + 4 - 6`.
InitFar ==
    /\ buffer = <<>>
    /\ pos = 0
    /\ LabelIdle
    /\ BuildIdle
    /\ targets = <<>>
    /\ aphase = "idle"
    /\ lastAsm = [op |-> "none"]
    /\ prevAsm = [op |-> "none"]
    /\ perm = "writable"
    /\ owner = "caller"
    /\ outcome = [kind |-> "none"]
    /\ \E from \in FarFroms :
          fcall = [f |-> "new", from |-> from, old |-> None, new |-> None]
    /\ fresult = FarResult("none", 0, None, None)

\* jump_if, const_jump, const_call: the placeholder is written, then
\* patch(patch, None, target).
FarJump(target) ==
    /\ fresult.kind = "none"
    /\ LET new == optional_disp32_usize(fcall.from, target)
       IN  fresult' = IF new.ok THEN FarResult("word", new.v, target, None)
                      ELSE FarResult("range", UNKNOWN_DISP, None, None)
    /\ fcall' = [fcall EXCEPT !.f = "jump", !.old = None, !.new = target]
    /\ UNCHANGED <<buildVars, labelVars, targets, aphase, lastAsm, prevAsm,
                   perm, owner, outcome>>

\* patch(patch, old, new): the assertion on the displacement found, then
\* the write of the new one.  "assert": the assertion failed; "range": it
\* passed and disp32 panicked on the new target.
FarPatch(old, new) ==
    /\ fresult.kind = "word"
    /\ LET o == optional_disp32_usize(fcall.from, old)
           n == optional_disp32_usize(fcall.from, new)
       IN  fresult' =
             IF ~o.ok \/ fresult.disp # o.v
             THEN FarResult("assert", fresult.disp, fresult.target, fresult.target)
             ELSE IF ~n.ok
                  THEN FarResult("range", fresult.disp, fresult.target, fresult.target)
                  ELSE FarResult("word", n.v, new, fresult.target)
    /\ fcall' = [fcall EXCEPT !.f = "patch", !.old = old, !.new = new]
    /\ UNCHANGED <<buildVars, labelVars, targets, aphase, lastAsm, prevAsm,
                   perm, owner, outcome>>

NextFar ==
    \/ \E target \in FarTargets : FarJump(target)
    \/ \E old, new \in FarTargets : FarPatch(old, new)

SpecFar == InitFar /\ [][NextFar]_vars

\* Two different targets with the same displacement from `from`.
Collide(from, a, b) ==
    /\ a # b
    /\ optional_disp32_usize(from, a).ok
    /\ optional_disp32_usize(from, b).ok
    /\ optional_disp32_usize(from, a).v = optional_disp32_usize(from, b).v

\* The address 2^31 below `from`, if there is one.
SentinelAddress(from) ==
    IF WideGreater(I32_MIN_MAG, from) THEN None
    ELSE Some(WideSub(from, I32_MIN_MAG))

\* The last call was a patch whose assertion passed.
AssertionPassed == fcall.f = "patch" /\ fresult.kind \in {"word", "range"}

\* C30 as stated: from one position no two different targets have the same
\* displacement, so that the assertion of patch passes only if old is the
\* target last written.
C30_EveryTargetDistinguished ==
    AssertionPassed =>
        /\ ~Collide(fcall.from, fcall.old, fresult.previous)
        /\ fcall.old = fresult.previous

\* C30 amended: two different targets have the same displacement only if
\* one is None and the other the address 2^31 below the end of the
\* instruction; the assertion of patch passes only if old is the target
\* last written or the two are that pair.
C30_TargetsDistinguishedButSentinel ==
    /\ \A a, b \in FarTargets :
          Collide(fcall.from, a, b) => {a, b} = {None, SentinelAddress(fcall.from)}
    /\ AssertionPassed =>
          \/ fcall.old = fresult.previous
          \/ {fcall.old, fresult.previous} = {None, SentinelAddress(fcall.from)}
    /\ (AssertionPassed /\ fcall.from[2] < 32768 /\ fcall.from[3] = 0 /\ fcall.from[4] = 0)
          => fcall.old = fresult.previous

\* C30 witness: at 2^31 + 6 a patch from None has failed its assertion
\* because the jump had the target 2^31 + 1.
C30_Witness ==
    /\ fcall.f = "patch"
    /\ fcall.from = <<6, 32768, 0, 0>>
    /\ fcall.old = None
    /\ fresult.kind = "assert"
    /\ fresult.previous = Some(<<1, 32768, 0, 0>>)

-----------------------------------------------------------------------------
(* The instruction encoders of the Assembler (x86_64/assembler.rs).  An    *)
(* opcode is the sequence of its bytes in the order write() stores them,   *)
(* the least significant byte of the u64 first.                            *)

\* Bitwise and, or on bytes.
RECURSIVE BitAnd(_, _)
BitAnd(a, b) ==
    IF a = 0 \/ b = 0 THEN 0
    ELSE (a % 2) * (b % 2) + 2 * BitAnd(a \div 2, b \div 2)

RECURSIVE BitOr(_, _)
BitOr(a, b) ==
    IF a = 0 THEN b
    ELSE IF b = 0 THEN a
    ELSE (IF a % 2 = 1 \/ b % 2 = 1 THEN 1 ELSE 0) + 2 * BitOr(a \div 2, b \div 2)

\* Precision as u64
P32 == 0

P64 == 1

\* Register as usize: RA, RC, RD, RB, RSP, RBP, RSI, RDI, R8 .. R15
RA == 0

RC == 1

RD == 2

RSP == 4

RBP == 5

RSI == 6

RDI == 7

R8 == 8

R9 == 9

R10 == 10

R11 == 11

R12 == 12

R15 == 15

\* Register::mask, byte k of it (k = 1 is the least significant): the REX
\* bits R, X and B in the first byte, and the low three bits of the register
\* in both register fields of every other byte.
RegisterMask(r, k) ==
    IF k = 1 THEN (IF r >= 8 THEN 7 ELSE 0) ELSE (r % 8) * 9

\* opcode |= select & r.mask()
OrRegister(opcode, select, r) ==
    [k \in DOMAIN opcode |-> BitOr(opcode[k], BitAnd(select[k], RegisterMask(r, k)))]

\* opcode |= (prec as u64) << 3
OrPrecision(opcode, prec) == [opcode EXCEPT ![1] = BitOr(@, prec * 8)]

\* write_ro_1
write_ro_1(opcode, prec, rd) ==
    OrRegister(OrPrecision(opcode, prec), <<1, 7>>, rd)

\* write_rom_1
write_rom_1(opcode, prec, rm) ==
    OrRegister(OrPrecision(opcode, prec), <<1, 0, 7>>, rm)

\* write_rom_2
write_rom_2(opcode, prec, rm, reg) ==
    OrRegister(OrRegister(OrPrecision(opcode, prec), <<1, 0, 7>>, rm),
               <<4, 0, 56>>, reg)

\* write_room_2
write_room_2(opcode, prec, rm, reg) ==
    OrRegister(OrRegister(OrPrecision(opcode, prec), <<1, 0, 0, 7>>, rm),
               <<4, 0, 0, 56>>, reg)

write_sib_fix_Never(rm) == <<>>

\* write_sib_fix
write_sib_fix(rm) == IF rm % 8 = 4 THEN <<36>> ELSE <<>>

\* The bytes of the low n limbs of an i64, the least significant first.
RECURSIVE WideBytes(_, _)
WideBytes(imm, n) ==
    IF n = 0 THEN <<>>
    ELSE WideBytes(imm, n - 1) \o <<imm[n] % 256, imm[n] \div 256>>

\* imm &= 0xFFFFFFFF if prec == P32
MaskToPrecision(prec, imm) ==
    IF prec = P32 THEN <<imm[1], imm[2], 0, 0>> ELSE imm

\* i64::from(imm as u32) == imm
FitsU32(imm) == imm[3] = 0 /\ imm[4] = 0

\* i64::from(imm as i32) == imm
FitsSignedI32(imm) ==
    IF imm[2] >= 32768 THEN imm[3] = 65535 /\ imm[4] = 65535
    ELSE imm[3] = 0 /\ imm[4] = 0

\* BinaryOp::rm_reg(true) and BinaryOp::reg_rm(false) of Add and Xor
rm_reg(op) == IF op = "Xor" THEN <<64, 49, 192>> ELSE <<64, 1, 192>>

reg_rm(op) == IF op = "Xor" THEN <<64, 51, 128>> ELSE <<64, 3, 128>>

\* Assembler::op
op(o, prec, dest, src) == write_rom_2(rm_reg(o), prec, dest, src)

\* Assembler::move_
move_(prec, dest, src) == write_rom_2(<<64, 139, 192>>, prec, src, dest)

\* Assembler::push, pop, call
push(rd) == write_ro_1(<<64, 80>>, P64, rd)

pop(rd) == write_ro_1(<<64, 88>>, P64, rd)

call(target) == write_rom_1(<<64, 255, 208>>, P32, target)

\* Assembler::const_preserving_flags
const_preserving_flags(prec, dest, imm0) ==
    LET imm == MaskToPrecision(prec, imm0)
    IN  IF FitsU32(imm)
        THEN write_ro_1(<<64, 184>>, P32, dest) \o WideBytes(imm, 2)
        ELSE IF FitsSignedI32(imm)
        THEN write_rom_1(<<64, 199, 192>>, P64, dest) \o WideBytes(imm, 2)
        ELSE write_ro_1(<<64, 184>>, P64, dest) \o WideBytes(imm, 4)

const__XorBeforeMask(prec, dest, imm0) ==
    IF imm0 = <<0, 0, 0, 0>> THEN op("Xor", prec, dest, dest)
    ELSE const_preserving_flags(prec, dest, imm0)

\* Assembler::const_
const_(prec, dest, imm0) ==
    LET imm == MaskToPrecision(prec, imm0)
    IN  IF imm = <<0, 0, 0, 0>> THEN op("Xor", prec, dest, dest)
        ELSE const_preserving_flags(prec, dest, imm)

\* Assembler::load, store, load_op, load_mul, load_udiv, load_sdiv, load_if:
\* the opcode with its registers, the SIB fix, the displacement.
load(prec, dest, base, d) ==
    write_rom_2(<<64, 139, 128>>, prec, base, dest) \o write_sib_fix(base) \o Imm32Bytes(d)

store(prec, base, d, src) ==
    write_rom_2(<<64, 137, 128>>, prec, base, src) \o write_sib_fix(base) \o Imm32Bytes(d)

load_op(o, prec, dest, base, d) ==
    write_rom_2(reg_rm(o), prec, base, dest) \o write_sib_fix(base) \o Imm32Bytes(d)

load_mul(prec, dest, base, d) ==
    write_room_2(<<64, 15, 175, 128>>, prec, base, dest) \o write_sib_fix(base)
        \o Imm32Bytes(d)

load_udiv(prec, base, d) ==
    write_rom_1(<<64, 247, 176>>, prec, base) \o write_sib_fix(base) \o Imm32Bytes(d)

load_sdiv(prec, base, d) ==
    write_rom_1(<<64, 247, 184>>, prec, base) \o write_sib_fix(base) \o Imm32Bytes(d)

\* Condition::load_if: CMOVcc, 0F 40+cc
load_if(cc, prec, dest, base, d) ==
    write_room_2(<<64, 15, 64 + cc, 128>>, prec, base, dest) \o write_sib_fix(base)
        \o Imm32Bytes(d)

Widths == {"U8", "S8", "U16", "S16", "U32", "S32", "U64", "S64"}

\* Assembler::load_narrow
load_narrow(prec, type_, dest, base, d) ==
    (CASE type_ = "U8"  -> write_room_2(<<64, 15, 182, 128>>, prec, base, dest)
       [] type_ = "S8"  -> write_room_2(<<64, 15, 190, 128>>, prec, base, dest)
       [] type_ = "U16" -> write_room_2(<<64, 15, 183, 128>>, prec, base, dest)
       [] type_ = "S16" -> write_room_2(<<64, 15, 191, 128>>, prec, base, dest)
       [] type_ = "U32" -> write_rom_2(<<64, 139, 128>>, P32, base, dest)
       [] type_ = "S32" -> write_rom_2(<<64, 99, 128>>, prec, base, dest)
       [] OTHER         -> write_rom_2(<<64, 139, 128>>, prec, base, dest))
    \o write_sib_fix(base) \o Imm32Bytes(d)

\* Assembler::store_narrow
store_narrow(type_, base, d, src) ==
    (CASE type_ \in {"U8", "S8"}   -> write_rom_2(<<64, 136, 128>>, P32, base, src)
       [] type_ \in {"U16", "S16"} -> <<102>> \o write_rom_2(<<64, 137, 128>>, P32, base, src)
       [] type_ \in {"U32", "S32"} -> write_rom_2(<<64, 137, 128>>, P32, base, src)
       [] OTHER                    -> write_rom_2(<<64, 137, 128>>, P64, base, src))
    \o write_sib_fix(base) \o Imm32Bytes(d)

\* CALLER_SAVES of the x86_64 target
CALLER_SAVES == <<RA, RD, RC, RDI, RSI, R8, R9, R10, R11>>

RECURSIVE PushAll(_, _)
PushAll(regs, i) ==
    IF i > Len(regs) THEN <<>> ELSE push(regs[i]) \o PushAll(regs, i + 1)

RECURSIVE PopAll(_, _)
PopAll(regs, i) ==
    IF i = 0 THEN <<>> ELSE pop(regs[i]) \o PopAll(regs, i - 1)

\* Assembler::debug, debug_word being the address of the function called
debug(x, debug_word) ==
    (IF Len(CALLER_SAVES) % 2 # 0 THEN push(CALLER_SAVES[1]) ELSE <<>>)
    \o PushAll(CALLER_SAVES, 1)
    \o move_(P64, RDI, x)
    \o const_(P64, RC, debug_word)
    \o call(RC)
    \o PopAll(CALLER_SAVES, Len(CALLER_SAVES))
    \o (IF Len(CALLER_SAVES) % 2 # 0 THEN pop(CALLER_SAVES[1]) ELSE <<>>)

-----------------------------------------------------------------------------
(* One call of an instruction method on a new Assembler.                   *)

\* const DISP: i32 = 0x12345678, the displacement of the tests
DISP == 305419896

\* The constants of tests::const_ and their complements, 2^31 and 2^32.
ImmSamples ==
    { <<0, 0, 0, 0>>, <<1, 0, 0, 0>>, <<1000, 0, 0, 0>>, <<12816, 30292, 0, 0>>,
      <<47768, 65244, 12816, 30292>>,
      <<65535, 65535, 65535, 65535>>, <<65534, 65535, 65535, 65535>>,
      <<64535, 65535, 65535, 65535>>, <<52719, 35243, 65535, 65535>>,
      <<17767, 291, 52719, 35243>>,
      <<0, 32768, 0, 0>>, <<0, 0, 1, 0>> }

\* Base registers with and without the bit pattern 100, and displacements
\* whose first byte is and is not 0x24.
Bases == {RA, RSP, RBP, R8, R12}

Disps == {DISP, 36, -1}

Call(f, prec, reg, base, d, imm, type_) ==
    [f |-> f, prec |-> prec, reg |-> reg, base |-> base, d |-> d, imm |-> imm,
     type_ |-> type_]

MemoryMethods ==
    {"load", "store", "load_op", "load_mul", "load_udiv", "load_sdiv", "load_if",
     "load_narrow", "store_narrow"}

InstrCalls ==
    {Call(f, prec, reg, 0, 0, imm, "") :
        f \in {"const_", "const_preserving_flags"}, prec \in {P32, P64},
        reg \in {RA, R8, R15}, imm \in ImmSamples}
    \cup {Call(f, prec, reg, base, d, <<0, 0, 0, 0>>, "") :
        f \in {"load", "store", "load_op", "load_mul", "load_if"},
        prec \in {P32, P64}, reg \in {RA, R10}, base \in Bases, d \in Disps}
    \cup {Call(f, prec, 0, base, d, <<0, 0, 0, 0>>, "") :
        f \in {"load_udiv", "load_sdiv"},
        prec \in {P32, P64}, base \in Bases, d \in Disps}
    \cup {Call("load_narrow", prec, reg, base, d, <<0, 0, 0, 0>>, type_) :
        prec \in {P32, P64}, reg \in {RA, R10}, base \in Bases, d \in Disps,
        type_ \in Widths}
    \cup {Call("store_narrow", P32, reg, base, d, <<0, 0, 0, 0>>, type_) :
        reg \in {RA, R10}, base \in Bases, d \in Disps, type_ \in Widths}
    \cup {Call("debug", P64, reg, 0, 0, imm, "") :
        reg \in {RA, R8}, imm \in ImmSamples}

\* The bytes the method called assembles.
Assembled(c) ==
    CASE c.f = "const_"       -> const_(c.prec, c.reg, c.imm)
      [] c.f = "const_preserving_flags" -> const_preserving_flags(c.prec, c.reg, c.imm)
      [] c.f = "load"         -> load(c.prec, c.reg, c.base, c.d)
      [] c.f = "store"        -> store(c.prec, c.base, c.d, c.reg)
      [] c.f = "load_op"      -> load_op("Add", c.prec, c.reg, c.base, c.d)
      [] c.f = "load_mul"     -> load_mul(c.prec, c.reg, c.base, c.d)
      [] c.f = "load_udiv"    -> load_udiv(c.prec, c.base, c.d)
      [] c.f = "load_sdiv"    -> load_sdiv(c.prec, c.base, c.d)
      [] c.f = "load_if"      -> load_if(4, c.prec, c.reg, c.base, c.d)
      [] c.f = "load_narrow"  -> load_narrow(c.prec, c.type_, c.reg, c.base, c.d)
      [] c.f = "store_narrow" -> store_narrow(c.type_, c.base, c.d, c.reg)
      [] c.f = "debug"        -> debug(c.reg, c.imm)

\* Assembler::write of the bytes of the method called.
Assemble ==
    /\ aphase = "run"
    /\ buffer' = BufWrite(buffer, pos, Assembled(fcall))
    /\ pos' = pos + Len(Assembled(fcall))
    /\ aphase' = "done"
    /\ UNCHANGED <<buildVars, labels, lphase, lastOp, targets, lastAsm, prevAsm,
                   perm, owner, outcome, fcall, fresult>>

AssembleConst ==
    /\ fcall.f \in {"const_", "const_preserving_flags"}
    /\ Assemble

AssembleMemory ==
    /\ fcall.f \in MemoryMethods
    /\ Assemble

AssembleDebug ==
    /\ fcall.f = "debug"
    /\ Assemble

\* Assembler::new, and the caller about to call one method.
InitInstr ==
    /\ buffer = <<>>
    /\ pos = 0
    /\ LabelIdle
    /\ BuildIdle
    /\ targets = <<>>
    /\ aphase = "run"
    /\ lastAsm = [op |-> "none"]
    /\ prevAsm = [op |-> "none"]
    /\ perm = "writable"
    /\ owner = "caller"
    /\ outcome = [kind |-> "none"]
    /\ fcall \in InstrCalls
    /\ fresult = [kind |-> "none"]

NextInstr == AssembleConst \/ AssembleMemory \/ AssembleDebug

SpecInstr == InitInstr /\ [][NextInstr]_vars

-----------------------------------------------------------------------------
(* Claims about the instruction encoders, read through a decoder of the    *)
(* x86_64 instructions the Assembler uses.                                 *)

\* The instruction at address `at` of buf: its fields and its length.
\* Two-byte opcodes (0F xx) are numbered 256 + xx.
Decode(buf, at) ==
    LET prefix  == IF read_byte(buf, at) = 102 THEN 1 ELSE 0
        rex     == read_byte(buf, at + prefix)
        two     == read_byte(buf, at + prefix + 1) = 15
        opc     == IF two THEN 256 + read_byte(buf, at + prefix + 2)
                   ELSE read_byte(buf, at + prefix + 1)
        afterOp == at + prefix + (IF two THEN 3 ELSE 2)
        W       == (rex \div 8) % 2
        noModRM == opc \in (80 .. 95) \cup (184 .. 191) \cup {195, 232, 233}
                            \cup (384 .. 399)
        modrm   == read_byte(buf, afterOp)
        mod     == modrm \div 64
        rm      == modrm % 8
        sib     == ~noModRM /\ mod # 3 /\ rm = 4
        dispAt  == afterOp + 1 + (IF sib THEN 1 ELSE 0)
        dispLen == IF noModRM \/ mod = 3 THEN 0
                   ELSE IF mod = 2 THEN 4
                   ELSE IF mod = 1 THEN 1
                   ELSE IF rm = 5 THEN 4 ELSE 0
        immAt   == IF noModRM THEN afterOp ELSE dispAt + dispLen
        immLen  == IF opc \in 184 .. 191 THEN (IF W = 1 THEN 8 ELSE 4)
                   ELSE IF opc \in {232, 233, 199, 129, 105} \cup (384 .. 399) THEN 4
                   ELSE IF opc = 193 THEN 1 ELSE 0
    IN  [valid |-> rex \div 16 = 4, opc |-> opc, W |-> W,
         R |-> (rex \div 4) % 2, B |-> rex % 2,
         hasModRM |-> ~noModRM, modrmAt |-> afterOp, mod |-> mod,
         reg |-> (modrm \div 8) % 8, rm |-> rm, sib |-> sib,
         dispAt |-> dispAt, dispLen |-> dispLen, immAt |-> immAt,
         len |-> (immAt + immLen) - at]

\* The number of instructions in buf from address `at` on.
RECURSIVE CountInstructions(_, _)
CountInstructions(buf, at) ==
    IF at >= Len(buf) THEN 0
    ELSE 1 + CountInstructions(buf, at + Decode(buf, at).len)

\* The limb of an i64 at bytes at, at + 1 of buf.
LimbAt(buf, at) == read_byte(buf, at) + 256 * read_byte(buf, at + 1)

\* The value the constant-loading instruction d of buf leaves in its
\* destination: XOR r, r leaves 0; MOV r32, imm32 zero-extends; MOV r/m64,
\* imm32 sign-extends; MOV r64, imm64 loads all eight bytes.
LoadedValue(buf, d) ==
    LET l0 == LimbAt(buf, d.immAt)
        l1 == LimbAt(buf, d.immAt + 2)
    IN  IF d.opc = 49 THEN <<0, 0, 0, 0>>
        ELSE IF d.opc = 199
             THEN (IF l1 >= 32768 THEN <<l0, l1, 65535, 65535>> ELSE <<l0, l1, 0, 0>>)
        ELSE IF d.W = 0 THEN <<l0, l1, 0, 0>>
        ELSE <<l0, l1, LimbAt(buf, d.immAt + 4), LimbAt(buf, d.immAt + 6)>>

\* The destination register of the constant-loading instruction d.
LoadedRegister(d) ==
    IF d.opc \in 184 .. 191 THEN (d.opc - 184) + 8 * d.B ELSE d.rm + 8 * d.B

\* C16: const_ assembles XOR dest, dest exactly when imm, masked to 32 bits
\* for P32, is 0, and otherwise the bytes of const_preserving_flags, which
\* never assembles XOR: MOV r32, imm32 if the value fits u32, MOV r/m64,
\* imm32 if it fits i32, else the ten bytes of MOV r64, imm64; the one
\* instruction assembled loads imm (P64) or imm & 0xFFFFFFFF (P32) in dest.
C16_ConstEncoding ==
    (aphase = "done" /\ fcall.f \in {"const_", "const_preserving_flags"}) =>
        LET d      == Decode(buffer, 0)
            value  == IF fcall.prec = P32 THEN <<fcall.imm[1], fcall.imm[2], 0, 0>>
                      ELSE fcall.imm
            isXor  == d.opc = 49 /\ d.mod = 3
                        /\ d.reg + 8 * d.R = fcall.reg /\ d.rm + 8 * d.B = fcall.reg
            isZero == value = <<0, 0, 0, 0>>
            high   == <<value[3], value[4]>>
        IN  /\ d.valid /\ d.len = pos /\ pos = Len(buffer)
            /\ isXor <=> (fcall.f = "const_" /\ isZero)
            /\ isXor => d.W = fcall.prec /\ pos = 3
            /\ ~isXor =>
                  /\ buffer = const_preserving_flags(fcall.prec, fcall.reg, fcall.imm)
                  /\ IF high = <<0, 0>>
                     THEN d.opc \in 184 .. 191 /\ d.W = 0 /\ pos = 6
                     ELSE IF high = <<65535, 65535>> /\ value[2] >= 32768
                     THEN d.opc = 199 /\ d.W = 1 /\ d.mod = 3 /\ d.reg = 0 /\ pos = 7
                     ELSE d.opc \in 184 .. 191 /\ d.W = 1 /\ pos = 10
            /\ LoadedRegister(d) = fcall.reg
            /\ LoadedValue(buffer, d) = value

\* C16 witness: const_(P32, R8, 2^32) has assembled xor r8d, r8d.
C16_Witness ==
    /\ aphase = "done"
    /\ fcall.f = "const_"
    /\ fcall.prec = P32
    /\ fcall.reg = R8
    /\ fcall.imm = <<0, 0, 1, 0>>
    /\ buffer = <<69, 49, 192>>

\* C17: every instruction with a memory operand has the SIB byte 0x24
\* right after its ModR/M byte and before its 32-bit displacement if the low
\* three bits of the base register are 100, and has the displacement right
\* after the ModR/M byte otherwise.
C17_SibFix ==
    (aphase = "done" /\ fcall.f \in MemoryMethods) =>
        LET d      == Decode(buffer, 0)
            hasSib == fcall.base % 8 = 4
            fix    == IF hasSib THEN 1 ELSE 0
        IN  /\ d.valid /\ d.hasModRM /\ d.mod = 2
            /\ d.rm + 8 * d.B = fcall.base
            /\ d.sib <=> hasSib
            /\ hasSib => read_byte(buffer, d.modrmAt + 1) = 36
            /\ pos = d.modrmAt + 1 + fix + 4
            /\ ReadI32(buffer, d.modrmAt + 1 + fix) = fcall.d
            /\ d.len = pos /\ pos = Len(buffer)

\* C17 witness: store(P64, (R12, 0x12345678), R10) has assembled
\* 4D 89 94 24 78 56 34 12.
C17_Witness ==
    /\ aphase = "done"
    /\ fcall.f = "store"
    /\ fcall.prec = P64
    /\ fcall.base = R12
    /\ fcall.reg = R10
    /\ fcall.d = DISP
    /\ buffer = <<77, 137, 148, 36, 120, 86, 52, 18>>

\* C18: every call of an instruction method, debug included, assembles one
\* instruction.
C18_OneInstructionPerCall ==
    aphase = "done" => CountInstructions(buffer, 0) = 1

-----------------------------------------------------------------------------
(* Target::execute (target/mod.rs): the lowerer is passed by value, the    *)
(* Buffer is made executable, the callback is called, the Buffer is made   *)
(* writable, and the lowerer comes back with the result of the callback.   *)

\* What the callback may return.
CallbackResults == {0, 47}

set_mode_Keeps(current, wanted) == current

\* The mode of the Buffer after its permissions were changed with success.
set_mode(current, wanted) == wanted

lowerer_Borrowed(o) == o

\* The owner of the lowerer once it has been passed to execute.
lowerer_moved(o) == "execute"

lowerer_Returned(o) == "caller"

\* The owner of the lowerer once execute has returned Err: the lowerer was
\* passed by value and std::io::Result's Err does not hold it.
lowerer_dropped(o) == "gone"

\* The caller passes the lowerer to execute.
ExecuteCall ==
    /\ aphase = "run"
    /\ owner = "caller"
    /\ outcome.kind \in {"none", "ok"}
    /\ owner' = lowerer_moved(owner)
    /\ outcome' = [kind |-> "called"]
    /\ UNCHANGED <<buffer, pos, targets, aphase, lastAsm, prevAsm, perm, fcall, fresult>>

\* execute makes the Buffer executable and calls the callback; or the
\* permissions cannot be changed: Err, and the lowerer is gone.
MakeExecutable(ok) ==
    /\ outcome.kind = "called"
    /\ IF ok
       THEN /\ perm' = set_mode(perm, "executable")
            /\ outcome' = [kind |-> "callback"]
            /\ UNCHANGED owner
       ELSE /\ outcome' = [kind |-> "err"]
            /\ owner' = lowerer_dropped(owner)
            /\ UNCHANGED perm
    /\ UNCHANGED <<buffer, pos, targets, aphase, lastAsm, prevAsm, fcall, fresult>>

\* The callback returns t.
CallbackReturn(t) ==
    /\ outcome.kind = "callback"
    /\ outcome' = [kind |-> "flipback", value |-> t]
    /\ UNCHANGED <<buffer, pos, targets, aphase, lastAsm, prevAsm, perm, owner,
                   fcall, fresult>>

\* execute makes the Buffer writable and returns Ok((lowerer, t)); or the
\* permissions cannot be changed: Err, and the lowerer is gone.
MakeWritable(ok) ==
    /\ outcome.kind = "flipback"
    /\ IF ok
       THEN /\ perm' = set_mode(perm, "writable")
            /\ outcome' = [kind |-> "ok", value |-> outcome.value]
            /\ owner' = "caller"
       ELSE /\ outcome' = [kind |-> "err"]
            /\ owner' = lowerer_dropped(owner)
            /\ UNCHANGED perm
    /\ UNCHANGED <<buffer, pos, targets, aphase, lastAsm, prevAsm, fcall, fresult>>

NextExec ==
    \/ \E kind \in JumpKinds :
          AJump(kind, None) /\ UNCHANGED <<buildVars, labels, lphase, lastOp>>
    \/ ARet /\ UNCHANGED <<buildVars, labels, lphase, lastOp>>
    \/ \E p \in DOMAIN targets, new \in AsmTargets :
          APatch(p, targets[p], new) /\ UNCHANGED <<buildVars, labels, lphase, lastOp>>
    \/ ExecuteCall /\ UNCHANGED <<buildVars, labels, lphase, lastOp>>
    \/ \E ok \in BOOLEAN : MakeExecutable(ok) /\ UNCHANGED <<buildVars, labels, lphase, lastOp>>
    \/ \E t \in CallbackResults :
          CallbackReturn(t) /\ UNCHANGED <<buildVars, labels, lphase, lastOp>>
    \/ \E ok \in BOOLEAN : MakeWritable(ok) /\ UNCHANGED <<buildVars, labels, lphase, lastOp>>

SpecExec == InitAsm /\ [][NextExec]_vars

-----------------------------------------------------------------------------
(* Claims about Target::execute. *)

\* C19: the Buffer is writable or executable; as long as it exists (execute
\* has not returned Err, with which the lowerer is gone) it is executable
\* when the callback gets control and only from then until execute makes it
\* writable again; when execute returns Ok the Buffer is writable, the
\* lowerer is back with the caller, its bytes as they were, and the value
\* returned is the one the callback returned.
C19_PermissionProtocol ==
    [][/\ perm' \in {"writable", "executable"}
       /\ outcome'.kind = "callback" => perm' = "executable"
       /\ (perm' = "executable" /\ owner' # "gone") =>
             outcome'.kind \in {"callback", "flipback"} /\ owner' = "execute"
       /\ (outcome'.kind = "ok" /\ outcome.kind # "ok") =>
             /\ outcome.kind = "flipback"
             /\ outcome'.value = outcome.value
             /\ perm' = "writable"
             /\ owner' = "caller"
             /\ buffer' = buffer /\ pos' = pos]_vars

\* C19 witness: execute has returned Ok with the result 47 of the callback,
\* for code that was assembled before; the Buffer is writable again.
C19_Witness ==
    /\ outcome = [kind |-> "ok", value |-> 47]
    /\ perm = "writable"
    /\ owner = "caller"
    /\ pos > 0

\* C20: the buffer and the assembly address change only while the Buffer is
\* writable and the caller owns the lowerer: from the call of execute until
\* it has returned the lowerer, no method of the assembler is enabled.
C20_NoAssemblyWhileExecutable ==
    [][/\ (buffer' # buffer \/ pos' # pos \/ lastAsm' # lastAsm) =>
             /\ perm = "writable" /\ owner = "caller"
             /\ perm' = "writable" /\ owner' = "caller"
       /\ owner # "caller" => (buffer' = buffer /\ pos' = pos /\ targets' = targets)
       /\ perm = "executable" => owner = "execute"]_vars

\* C20 witness: the callback runs on assembled code that holds a jump, and
\* the lowerer is with execute.
C20_Witness ==
    /\ outcome.kind = "callback"
    /\ perm = "executable"
    /\ owner = "execute"
    /\ DOMAIN targets # {}

\* C21: execute returns Err exactly when a change of the permissions fails,
\* in either direction, and the lowerer is then gone: the caller does not
\* own it, and from then on nothing is assembled, patched or executed.
C21_PermissionFailureConsumesLowerer ==
    [][/\ (outcome'.kind = "err" /\ outcome.kind # "err") =>
             /\ outcome.kind \in {"called", "flipback"}
             /\ owner = "execute"
             /\ owner' = "gone"
       /\ outcome.kind = "err" => owner = "gone"
       /\ owner = "gone" =>
             /\ outcome.kind = "err"
             /\ UNCHANGED <<buffer, pos, targets, lastAsm, perm, owner, outcome>>]_vars

\* C21 witness: the Buffer could not be made writable again after the
\* callback had run on assembled code; execute has returned Err.
C21_Witness ==
    /\ outcome.kind = "err"
    /\ owner = "gone"
    /\ perm = "executable"
    /\ pos > 0

\* The other direction: the Buffer could not be made executable.
C21_WitnessNotExecutable ==
    /\ outcome.kind = "err"
    /\ owner = "gone"
    /\ perm = "writable"

====
